---- MODULE Spec2Model ----
(***************************************************************************)
(* A model of the Cairo smart test framework (cairo-smart-test 0.1.1) and  *)
(* of the reference arithmetic that its test classes encode.               *)
(*                                                                         *)
(* The function under test is a black box: an invocation either returns a *)
(* tuple of felts or raises an exception, and the model draws that         *)
(* behaviour nondeterministically.  The success and failure functions of a *)
(* test class are modelled by what their asserts compute.                  *)
(***************************************************************************)
EXTENDS Integers, Sequences, FiniteSets, TLC

VARIABLES
    run_tests,            \* SmartTest.run_tests
    LastTest,             \* SmartTest.LastTest ("None" or the func_name of a test class)
    results_accumulator,  \* SmartTest.results_accumulator (None or a list)
    last,                 \* what the most recent call did, as its caller observes it
    fw                    \* the most recent judgement of a fixed-width success_function

vars == <<run_tests, LastTest, results_accumulator, last, fw>>

(***************************************************************************)
(* Bounds of the model.                                                    *)
(***************************************************************************)
\* longest accumulated list
MaxAcc == 2
\* number of bits of the stand-in for the field prime (the real one has 252)
FELT_BITS == 12
\* how far outside the word a returned felt may lie
Slack == 1

(***************************************************************************)
(* Felts.  The real DEFAULT_PRIME is 2^251 + 17 * 2^192 + 1; the model     *)
(* keeps its shape (odd, far larger than every word) at a size TLC can     *)
(* enumerate.                                                              *)
(***************************************************************************)
DEFAULT_PRIME == 2 ^ FELT_BITS + 1

mod_default_prime(a) == a % DEFAULT_PRIME

\* assert_felt_eq_num(a, b): TRUE iff neither assert fails
assert_felt_eq_num(a, b) ==
    /\ (0 <= a) /\ (a < DEFAULT_PRIME)
    /\ mod_default_prime(a - b) = 0

\* how the Cairo machine takes an integer argument or result: modulo the prime
to_felt(n) == n % DEFAULT_PRIME

(***************************************************************************)
(* Python's None for the accumulator, and the two forms of it.            *)
(***************************************************************************)
NoneAcc == [none |-> TRUE, list |-> <<>>]
ListAcc(l) == [none |-> FALSE, list |-> l]

\* an accumulator that takes new entries at the front
append_if_accumulating_AtFront(acc, entry) ==
    IF acc.none THEN acc ELSE ListAcc(<<entry>> \o acc.list)

\* results_accumulator.append(entry), guarded by `results_accumulator != None`
append_if_accumulating(acc, entry) ==
    IF acc.none = FALSE THEN ListAcc(Append(acc.list, entry)) ELSE acc

(***************************************************************************)
(* Exceptions.  `origin` is the call that raised it, `context` the type of *)
(* the exception that was being handled when it was raised (__context__).  *)
(***************************************************************************)
NoExc == [type |-> "None", origin |-> "None", context |-> "None"]
Exc(t, o, c) == [type |-> t, origin |-> o, context |-> c]

\* what a failing invocation of the function under test may raise
InvocationExceptions == {"VmException", "AssertionError"}

(***************************************************************************)
(* The test classes the harness is run on.                                 *)
(***************************************************************************)
IS_DOUBLE == "is_double_uint5"
ID == "Int6.id"
TestClasses == {IS_DOUBLE, ID}

\* classes that define failure_function themselves
DefinesFailureFunction == {IS_DOUBLE}

\* a base class whose failure_function is a stub that returns
AbstractFailureFunction_Stub(argument_values) == "ok"

\* AbstractCairoTestClass.failure_function, called with the argument values
AbstractFailureFunction(argument_values) ==
    IF Len(argument_values) = 0 THEN "NotImplementedError" ELSE "TypeError"

\* is_double_uint5: success_function(a, b, res)
IsDoubleSuccess(a, b, res) ==
    /\ (a < 2 ^ 5) /\ (b < 2 ^ 5)
    /\ \/ (a = 2 * b) /\ (res = 1)
       \/ (a # 2 * b) /\ (res = 0)

\* is_double_uint5: failure_function(a, b)
IsDoubleFailure(a, b) == (a >= 2 ^ 5) \/ (b >= 2 ^ 5)

\* Int6.id: success_function(a_in, res)
IdSuccess(a_in, res) == assert_felt_eq_num(res, a_in)

\* test_class.success_function(*argument_values, *results):
\* "ok" if it returns, else the type of the exception it raises
success_function(test_class, argument_values, results) ==
    IF test_class = IS_DOUBLE
    THEN IF IsDoubleSuccess(argument_values[1], argument_values[2], results[1])
         THEN "ok" ELSE "AssertionError"
    ELSE IF IdSuccess(argument_values[1], results[1])
         THEN "ok" ELSE "AssertionError"

\* test_class.failure_function(*argument_values)
\* (None has no failure_function attribute: the lookup itself raises)
failure_function(test_class, argument_values) ==
    IF test_class = "None"
    THEN "AttributeError"
    ELSE IF test_class \in DefinesFailureFunction
    THEN IF IsDoubleFailure(argument_values[1], argument_values[2])
         THEN "ok" ELSE "AssertionError"
    ELSE AbstractFailureFunction(argument_values)

(***************************************************************************)
(* Inputs: argument lists and the behaviours of the function under test.   *)
(***************************************************************************)
ArgumentValues(test_class) ==
    IF test_class = IS_DOUBLE
    THEN {<<2, 1>>, <<1, 1>>, <<32, 1>>}
    ELSE {<<1>>, <<-1>>}

ReturnValues(test_class) ==
    IF test_class = IS_DOUBLE
    THEN {<<0>>, <<1>>}
    ELSE {<<1>>, <<to_felt(-1)>>}

\* an invocation returns results or raises
Returned(results) == [failed |-> FALSE, exc |-> "None", results |-> results]
Raised(e) == [failed |-> TRUE, exc |-> e, results |-> <<>>]

Invocations(test_class) ==
    {Returned(r) : r \in ReturnValues(test_class)}
        \cup {Raised(e) : e \in InvocationExceptions}

(***************************************************************************)
(* CairoTest.run                                                           *)
(***************************************************************************)
TAG_FAIL_EXPECTED == "Failure (as expected)"
TAG_FAIL_UNEXPECTED == "!!!! Failure (NOT expected) !!!!"
TAG_SUCC_EXPECTED == "Success (as expected)"
TAG_SUCC_UNEXPECTED == "!!!! Success (NOT expected) !!!!"

\* the result of one call: how it ended, what reached the caller, the
\* accumulator afterwards and which predicates were evaluated
RunResult(outcome, exc, acc, cell, se, fe) ==
    [outcome |-> outcome, exc |-> exc, acc |-> acc, cell |-> cell,
     success_evaluated |-> se, failure_evaluated |-> fe]

\* CairoTest.run with the unexpected cells raising before they record
CairoTest_run_RaisesBeforeAppend(test_class, argument_values, inv, acc) ==
    IF inv.failed
    THEN LET f == failure_function(test_class, argument_values) IN
         IF f = "ok"
         THEN RunResult("returned", NoExc,
                        append_if_accumulating(acc, <<TAG_FAIL_EXPECTED, argument_values>>),
                        TAG_FAIL_EXPECTED, FALSE, TRUE)
         ELSE RunResult("raised", Exc(f, "failure_function", inv.exc), acc,
                        TAG_FAIL_UNEXPECTED, FALSE, TRUE)
    ELSE LET s == success_function(test_class, argument_values, inv.results) IN
         IF s = "ok"
         THEN RunResult("returned", NoExc,
                        append_if_accumulating(acc, <<TAG_SUCC_EXPECTED, argument_values, inv.results>>),
                        TAG_SUCC_EXPECTED, TRUE, FALSE)
         ELSE IF acc.none = FALSE
              THEN RunResult("raised", Exc(s, "success_function", "None"), acc,
                             TAG_SUCC_UNEXPECTED, TRUE, FALSE)
              ELSE RunResult("returned", NoExc, acc, TAG_SUCC_UNEXPECTED, TRUE, FALSE)

\* CairoTest.run with `except VmException:` in place of the bare `except:`
CairoTest_run_CatchesVmExceptionOnly(test_class, argument_values, inv, acc) ==
    IF inv.failed
    THEN IF inv.exc # "VmException"
         THEN RunResult("raised", Exc(inv.exc, "invoke_function", "None"), acc,
                        "None", FALSE, FALSE)
         ELSE LET f == failure_function(test_class, argument_values) IN
              IF f = "ok"
              THEN RunResult("returned", NoExc,
                             append_if_accumulating(acc, <<TAG_FAIL_EXPECTED, argument_values>>),
                             TAG_FAIL_EXPECTED, FALSE, TRUE)
              ELSE RunResult("raised", Exc(f, "failure_function", inv.exc),
                             append_if_accumulating(acc, <<TAG_FAIL_UNEXPECTED, argument_values>>),
                             TAG_FAIL_UNEXPECTED, FALSE, TRUE)
    ELSE LET s == success_function(test_class, argument_values, inv.results) IN
         IF s = "ok"
         THEN RunResult("returned", NoExc,
                        append_if_accumulating(acc, <<TAG_SUCC_EXPECTED, argument_values, inv.results>>),
                        TAG_SUCC_EXPECTED, TRUE, FALSE)
         ELSE IF acc.none = FALSE
              THEN RunResult("raised", Exc(s, "success_function", "None"),
                             ListAcc(Append(acc.list, <<TAG_SUCC_UNEXPECTED, argument_values, inv.results>>)),
                             TAG_SUCC_UNEXPECTED, TRUE, FALSE)
              ELSE RunResult("returned", NoExc, acc, TAG_SUCC_UNEXPECTED, TRUE, FALSE)

CairoTest_run(test_class, argument_values, inv, acc) ==
    IF inv.failed
    THEN \* except: (any exception raised on function invocation)
         LET f == failure_function(test_class, argument_values) IN
         IF f = "ok"
         THEN RunResult("returned", NoExc,
                        append_if_accumulating(acc, <<TAG_FAIL_EXPECTED, argument_values>>),
                        TAG_FAIL_EXPECTED, FALSE, TRUE)
         ELSE \* the bare `raise` re-raises the exception being handled: the predicate's
              RunResult("raised", Exc(f, "failure_function", inv.exc),
                        append_if_accumulating(acc, <<TAG_FAIL_UNEXPECTED, argument_values>>),
                        TAG_FAIL_UNEXPECTED, FALSE, TRUE)
    ELSE LET s == success_function(test_class, argument_values, inv.results) IN
         IF s = "ok"
         THEN RunResult("returned", NoExc,
                        append_if_accumulating(acc, <<TAG_SUCC_EXPECTED, argument_values, inv.results>>),
                        TAG_SUCC_EXPECTED, TRUE, FALSE)
         ELSE \* the `raise` sits inside `if results_accumulator != None:`
              IF acc.none = FALSE
              THEN RunResult("raised", Exc(s, "success_function", "None"),
                             ListAcc(Append(acc.list, <<TAG_SUCC_UNEXPECTED, argument_values, inv.results>>)),
                             TAG_SUCC_UNEXPECTED, TRUE, FALSE)
              ELSE RunResult("returned", NoExc, acc, TAG_SUCC_UNEXPECTED, TRUE, FALSE)

(***************************************************************************)
(* CairoTest.invoke_function: the black box.  With no test class (None)    *)
(* the attribute lookup func_class.func_name raises before anything runs.  *)
(***************************************************************************)
InvocationsOf(test_class) ==
    IF test_class = "None"
    THEN {Raised("AttributeError")}
    ELSE Invocations(test_class)

ArgumentsOf(test_class) ==
    IF test_class = "None" THEN {<<1>>} ELSE ArgumentValues(test_class)

NotInvoked == [failed |-> FALSE, exc |-> "None", results |-> <<>>]

(***************************************************************************)
(* The observation of a call.                                              *)
(***************************************************************************)
Observation(op, test_class, argument_values, invoked, inv, ran, acc_none, outcome, exc, cell, se, fe, value) ==
    [op |-> op, test_class |-> test_class, argument_values |-> argument_values,
     invoked |-> invoked, inv |-> inv, ran |-> ran, acc_none |-> acc_none,
     outcome |-> outcome, exc |-> exc, cell |-> cell,
     success_evaluated |-> se, failure_evaluated |-> fe, value |-> value]

NoCall(op) ==
    Observation(op, "None", <<>>, FALSE, NotInvoked, FALSE, TRUE,
                "returned", NoExc, "None", FALSE, FALSE, <<>>)

\* room left in the accumulator for one more entry (the bound of the model)
HasRoom == results_accumulator.none \/ Len(results_accumulator.list) < MaxAcc

(***************************************************************************)
(* SmartTest.__init__ with exactly one of filename and test_object         *)
(***************************************************************************)
Init ==
    /\ run_tests = TRUE
    /\ LastTest = "None"
    /\ results_accumulator = NoneAcc
    /\ last = NoCall("init")
    /\ fw = [test |-> "None", a |-> 0, b |-> 0, res |-> 0, overflow |-> 0,
             accepted |-> FALSE]

(***************************************************************************)
(* SmartTest.run(SomeCairoTestClass, some_arguments); inv is what the      *)
(* function under test does if it is invoked.                              *)
(***************************************************************************)
\* SmartTest.run without the run_tests switch
SmartTest_run_body_IgnoresSwitch(op, SomeCairoTestClass, some_arguments, inv) ==
    LET r == CairoTest_run(SomeCairoTestClass, some_arguments, inv, results_accumulator)
    IN /\ results_accumulator' = r.acc
       /\ LastTest' = IF r.outcome = "raised" THEN LastTest ELSE SomeCairoTestClass
       /\ last' = Observation(op, SomeCairoTestClass, some_arguments, TRUE, inv,
                              run_tests, results_accumulator.none, r.outcome, r.exc,
                              r.cell, r.success_evaluated, r.failure_evaluated, <<>>)

SmartTest_run_body(op, SomeCairoTestClass, some_arguments, inv) ==
    IF run_tests
    THEN LET r == CairoTest_run(SomeCairoTestClass, some_arguments, inv,
                                results_accumulator)
         IN /\ results_accumulator' = r.acc
            \* the assignment to LastTest is skipped when run() raises
            /\ LastTest' = IF r.outcome = "raised" THEN LastTest ELSE SomeCairoTestClass
            /\ last' = Observation(op, SomeCairoTestClass, some_arguments, TRUE, inv,
                                   TRUE, results_accumulator.none, r.outcome, r.exc,
                                   r.cell, r.success_evaluated, r.failure_evaluated, <<>>)
    ELSE /\ results_accumulator' = results_accumulator
         /\ LastTest' = SomeCairoTestClass
         /\ last' = Observation(op, SomeCairoTestClass, some_arguments, FALSE, NotInvoked,
                                FALSE, results_accumulator.none, "returned", NoExc,
                                "None", FALSE, FALSE, <<>>)

SmartTest_run ==
    /\ HasRoom
    /\ \E T \in TestClasses :
         \E args \in ArgumentValues(T) :
           \E inv \in Invocations(T) :
             SmartTest_run_body("run", T, args, inv)
    /\ UNCHANGED <<run_tests, fw>>

(***************************************************************************)
(* SmartTest.run_LastTest(some_arguments)                                  *)
(***************************************************************************)
SmartTest_run_LastTest ==
    /\ HasRoom
    /\ \E args \in ArgumentsOf(LastTest) :
         \E inv \in InvocationsOf(LastTest) :
           SmartTest_run_body("run_LastTest", LastTest, args, inv)
    /\ UNCHANGED <<run_tests, fw>>

(***************************************************************************)
(* SmartTest.invoke_LastTest_on(some_arguments)                            *)
(***************************************************************************)
\* invoke_LastTest_on passing the results on to the classifier
SmartTest_invoke_LastTest_on_Classifies ==
    /\ HasRoom
    /\ \E args \in ArgumentsOf(LastTest) :
         \E inv \in InvocationsOf(LastTest) :
           LET r == CairoTest_run(LastTest, args, inv, results_accumulator)
           IN /\ results_accumulator' = r.acc
              /\ last' = Observation("invoke_LastTest_on", LastTest, args, TRUE, inv,
                                     run_tests, results_accumulator.none, r.outcome,
                                     r.exc, r.cell, r.success_evaluated,
                                     r.failure_evaluated, inv.results)
    /\ UNCHANGED <<run_tests, LastTest, fw>>

SmartTest_invoke_LastTest_on ==
    /\ \E args \in ArgumentsOf(LastTest) :
         \E inv \in InvocationsOf(LastTest) :
           last' = Observation("invoke_LastTest_on", LastTest, args, TRUE, inv,
                               run_tests, results_accumulator.none,
                               IF inv.failed THEN "raised" ELSE "returned",
                               IF inv.failed THEN Exc(inv.exc, "invoke_function", "None")
                                             ELSE NoExc,
                               "None", FALSE, FALSE, inv.results)
    /\ UNCHANGED <<run_tests, LastTest, results_accumulator, fw>>

(***************************************************************************)
(* The user's assignments to the harness's switches                        *)
(***************************************************************************)
Set_run_tests ==
    /\ \E b \in BOOLEAN : run_tests' = b
    /\ last' = NoCall("set_run_tests")
    /\ UNCHANGED <<LastTest, results_accumulator, fw>>

Set_results_accumulator ==
    /\ \E acc \in {NoneAcc, ListAcc(<<>>)} : results_accumulator' = acc
    /\ last' = NoCall("set_results_accumulator")
    /\ UNCHANGED <<run_tests, LastTest, fw>>

(***************************************************************************)
(* SmartTest.pretty_print_accumulated_results(): prints a hint when there  *)
(* is no accumulator, else the list that felt_heuristic builds from the    *)
(* accumulator; the accumulator itself is only read.                       *)
(***************************************************************************)
SmartTest_pretty_print_accumulated_results ==
    /\ last' = NoCall("pretty_print_accumulated_results")
    /\ UNCHANGED <<run_tests, LastTest, results_accumulator, fw>>

Next ==
    \/ SmartTest_run
    \/ SmartTest_run_LastTest
    \/ SmartTest_invoke_LastTest_on
    \/ SmartTest_pretty_print_accumulated_results
    \/ Set_run_tests
    \/ Set_results_accumulator

Spec == Init /\ [][Next]_vars

(***************************************************************************)
(* The signed fixed-width model (test_int6.py)                             *)
(***************************************************************************)
BIT_LENGTH == 6
WORD_SIZE == 2 ^ BIT_LENGTH
SHIFT == 2 ^ (BIT_LENGTH - 1)
MIN_VAL == -SHIFT
MAX_VAL == SHIFT - 1

\* arbitrary_num_generator
arbitrary_num == MIN_VAL .. MAX_VAL

\* what the function under test may hand back for a word and for a flag
ReturnedWords == {to_felt(x) : x \in (MIN_VAL - Slack) .. (MAX_VAL + Slack)}
ReturnedFlags == {to_felt(x) : x \in (-Slack) .. Slack}

\* eq_with_overflow with `>=` and `<=` for the strict comparisons
eq_with_overflow_OffByOne(expected_num, actual_felt_returned, overflow_bit) ==
    IF expected_num >= MAX_VAL
    THEN /\ assert_felt_eq_num(actual_felt_returned, expected_num - WORD_SIZE)
         /\ assert_felt_eq_num(overflow_bit, 1)
    ELSE IF expected_num <= MIN_VAL
    THEN /\ assert_felt_eq_num(actual_felt_returned, expected_num + WORD_SIZE)
         /\ assert_felt_eq_num(overflow_bit, -1)
    ELSE /\ assert_felt_eq_num(actual_felt_returned, expected_num)
         /\ assert_felt_eq_num(overflow_bit, 0)

\* eq_with_overflow: TRUE iff no assert fails
eq_with_overflow(expected_num, actual_felt_returned, overflow_bit) ==
    IF expected_num > MAX_VAL
    THEN /\ assert_felt_eq_num(actual_felt_returned, expected_num - WORD_SIZE)
         /\ assert_felt_eq_num(overflow_bit, 1)
    ELSE IF expected_num < MIN_VAL
    THEN /\ assert_felt_eq_num(actual_felt_returned, expected_num + WORD_SIZE)
         /\ assert_felt_eq_num(overflow_bit, -1)
    ELSE /\ assert_felt_eq_num(actual_felt_returned, expected_num)
         /\ assert_felt_eq_num(overflow_bit, 0)

\* test__add: success_function(a_in, b_in, res, overflow)
add_success_function(a_in, b_in, res, overflow) ==
    eq_with_overflow(a_in + b_in, res, overflow)

\* test__sub: success_function(a_in, b_in, res, overflow)
sub_success_function(a_in, b_in, res, overflow) ==
    eq_with_overflow(a_in - b_in, res, overflow)

Judgement(test, a, b, res, overflow, accepted) ==
    [test |-> test, a |-> a, b |-> b, res |-> res, overflow |-> overflow,
     accepted |-> accepted]

\* a test case before its judgement: the arguments, and what the function
\* under test returned on them
Pending(a, b, res, overflow) == Judgement("pending", a, b, res, overflow, FALSE)

InitAddSub ==
    /\ run_tests = TRUE
    /\ LastTest = "None"
    /\ results_accumulator = NoneAcc
    /\ last = NoCall("init")
    /\ \E a \in arbitrary_num, b \in arbitrary_num :
         \E res \in ReturnedWords, overflow \in ReturnedFlags :
           fw = Pending(a, b, res, overflow)

\* the success function of the test judges the returned pair
test__add ==
    /\ fw.test = "pending"
    /\ fw' = Judgement("add", fw.a, fw.b, fw.res, fw.overflow,
                       add_success_function(fw.a, fw.b, fw.res, fw.overflow))
    /\ UNCHANGED <<run_tests, LastTest, results_accumulator, last>>

test__sub ==
    /\ fw.test = "pending"
    /\ fw' = Judgement("sub", fw.a, fw.b, fw.res, fw.overflow,
                       sub_success_function(fw.a, fw.b, fw.res, fw.overflow))
    /\ UNCHANGED <<run_tests, LastTest, results_accumulator, last>>

NextAddSub == test__add \/ test__sub

SpecAddSub == InitAddSub /\ [][NextAddSub]_vars

(***************************************************************************)
(* Properties of the outcome classifier                                    *)
(***************************************************************************)
\* the most recent call went through CairoTest.run
RanCairoTest == last.op \in {"run", "run_LastTest"} /\ last.ran

\* the verdict of the predicate that CairoTest.run consults for the call
PredicateAccepts(o) ==
    IF o.inv.failed
    THEN failure_function(o.test_class, o.argument_values) = "ok"
    ELSE success_function(o.test_class, o.argument_values, o.inv.results) = "ok"

\* the accumulator setting the call was made with
AccSetting(o) == IF o.acc_none THEN NoneAcc ELSE ListAcc(<<>>)

\* C1: whatever the accumulator setting, a run returns normally exactly when
\* the predicate for its cell accepts and propagates an exception exactly
\* when that predicate raises
C1_FourCellsRouted ==
    RanCairoTest =>
        /\ PredicateAccepts(last) => last.outcome = "returned"
        /\ ~PredicateAccepts(last) => last.outcome = "raised"

\* C2: when the invocation raises E1 and the failure predicate raises E2, the
\* run is an unexpected failure and the exception reaching the caller is E1
C2_OriginalFailureReraised ==
    (RanCairoTest /\ last.inv.failed /\ ~PredicateAccepts(last)) =>
        /\ last.cell = TAG_FAIL_UNEXPECTED
        /\ last.outcome = "raised"
        /\ last.exc.origin = "invoke_function"
        /\ last.exc.type = last.inv.exc

\* C3: the same run with the accumulator attached and with None ends the same
\* way: both return normally or both propagate
C3_AccumulationKeepsControlFlow ==
    RanCairoTest =>
        \A acc \in {NoneAcc, ListAcc(<<>>)} :
            CairoTest_run(last.test_class, last.argument_values, last.inv, acc).outcome
                = last.outcome

\* the entry the classifier owes the accumulator for a call
EntryFor(o) ==
    IF o.inv.failed
    THEN <<IF PredicateAccepts(o) THEN TAG_FAIL_EXPECTED ELSE TAG_FAIL_UNEXPECTED,
           o.argument_values>>
    ELSE <<IF PredicateAccepts(o) THEN TAG_SUCC_EXPECTED ELSE TAG_SUCC_UNEXPECTED,
           o.argument_values, o.inv.results>>

\* C4: with an accumulator attached every run appends exactly one entry, also
\* when it ends by propagating, and the entry's tag and payload match the cell
C4_AppendsExactlyOneEntry ==
    [][(last'.op \in {"run", "run_LastTest"} /\ last'.ran /\ ~results_accumulator.none) =>
          /\ ~results_accumulator'.none
          /\ results_accumulator'.list = Append(results_accumulator.list, EntryFor(last'))]_vars

C4_Witness ==
    /\ RanCairoTest /\ ~last.acc_none /\ last.outcome = "raised"
    /\ ~results_accumulator.none
    /\ Len(results_accumulator.list) = 2
    /\ results_accumulator.list[1][1] = TAG_FAIL_EXPECTED
    /\ results_accumulator.list[2][1] = TAG_SUCC_UNEXPECTED

\* C5: a class without a failure predicate whose invocation raises is always
\* an unexpected failure: recorded as such when accumulating, and propagated
C5_NoFailurePredicateIsUnexpected ==
    (/\ RanCairoTest
     /\ last.test_class \in TestClasses \ DefinesFailureFunction
     /\ last.inv.failed) =>
        /\ last.outcome = "raised"
        /\ last.cell = TAG_FAIL_UNEXPECTED
        /\ ~last.acc_none =>
              /\ ~results_accumulator.none
              /\ Len(results_accumulator.list) > 0
              /\ results_accumulator.list[Len(results_accumulator.list)]
                     = <<TAG_FAIL_UNEXPECTED, last.argument_values>>

C5_Witness ==
    /\ RanCairoTest /\ last.test_class = ID /\ last.inv.failed
    /\ ~last.acc_none /\ last.outcome = "raised"

\* C6: after every SmartTest.run(T, args), however it ends and whatever
\* run_tests is, LastTest is T
C6_LastTestIsT ==
    last.op = "run" => LastTest = last.test_class

\* C7: with run_tests False, run only stores T in LastTest: nothing is
\* invoked or evaluated, nothing is appended, and the call returns normally
C7_RunTestsFalseOnlyStores ==
    [][(last'.op \in {"run", "run_LastTest"} /\ ~run_tests) =>
          /\ LastTest' = last'.test_class
          /\ ~last'.invoked /\ ~last'.success_evaluated /\ ~last'.failure_evaluated
          /\ results_accumulator' = results_accumulator
          /\ run_tests' = run_tests
          /\ last'.outcome = "returned"]_vars

C7_Witness ==
    /\ last.op = "run" /\ ~last.ran /\ ~run_tests
    /\ LastTest = IS_DOUBLE /\ last.test_class = IS_DOUBLE
    /\ ~results_accumulator.none /\ Len(results_accumulator.list) = 1

\* C8: invoke_LastTest_on only invokes: no predicate is evaluated, the
\* accumulator, LastTest and run_tests keep their values, the results are
\* returned and an invocation failure propagates as it is
C8_InvokeOnlyInvokes ==
    [][(last'.op = "invoke_LastTest_on") =>
          /\ last'.invoked
          /\ ~last'.success_evaluated /\ ~last'.failure_evaluated
          /\ results_accumulator' = results_accumulator
          /\ LastTest' = LastTest
          /\ run_tests' = run_tests
          /\ last'.test_class = LastTest
          /\ IF last'.inv.failed
             THEN /\ last'.outcome = "raised"
                  /\ last'.exc = Exc(last'.inv.exc, "invoke_function", "None")
             ELSE /\ last'.outcome = "returned"
                  /\ last'.value = last'.inv.results]_vars

C8_Witness ==
    /\ last.op = "invoke_LastTest_on" /\ last.inv.failed /\ last.outcome = "raised"
    /\ LastTest = IS_DOUBLE
    /\ ~results_accumulator.none /\ Len(results_accumulator.list) = 1

\* C9: for a failing invocation the recorded variant and the return/propagate
\* decision are the same whatever exception the invocation raised: they follow
\* the failure predicate's verdict on the arguments
C9_FailureKindIgnored ==
    (RanCairoTest /\ last.inv.failed) =>
        /\ \A e \in InvocationExceptions :
              LET r == CairoTest_run(last.test_class, last.argument_values,
                                     Raised(e), AccSetting(last))
              IN /\ r.cell = last.cell
                 /\ r.outcome = last.outcome
                 /\ r.acc = append_if_accumulating(AccSetting(last), EntryFor(last))
        /\ last.outcome = "returned"
              <=> failure_function(last.test_class, last.argument_values) = "ok"

C9_Witness ==
    /\ RanCairoTest /\ last.inv.failed /\ last.inv.exc = "AssertionError"
    /\ last.test_class = IS_DOUBLE /\ last.outcome = "returned"
    /\ last.cell = TAG_FAIL_EXPECTED

(***************************************************************************)
(* Properties of the signed fixed-width model                              *)
(***************************************************************************)
\* the exact value that add and sub are judged against
ExactValue(j) == IF j.test = "add" THEN j.a + j.b ELSE j.a - j.b

\* the wrapped result and the flag for an exact value v
WrappedResult(v) ==
    IF v > MAX_VAL THEN v - WORD_SIZE ELSE IF v < MIN_VAL THEN v + WORD_SIZE ELSE v
WrapFlag(v) ==
    IF v > MAX_VAL THEN 1 ELSE IF v < MIN_VAL THEN -1 ELSE 0

\* C10: signed add and sub accept exactly the pair (v - WORD_SIZE, +1) above
\* MAX, (v + WORD_SIZE, -1) below MIN and (v, 0) otherwise; that result is in
\* [MIN, MAX] and result + flag * WORD_SIZE is the exact value, and
\* add(MAX, 1) is (MIN, +1)
C10_SignedAddSubWraps ==
    fw.test \in {"add", "sub"} =>
        LET v == ExactValue(fw)
            r == WrappedResult(v)
            f == WrapFlag(v)
        IN /\ fw.accepted <=> (fw.res = to_felt(r) /\ fw.overflow = to_felt(f))
           /\ MIN_VAL <= r /\ r <= MAX_VAL
           /\ r + f * WORD_SIZE = v
           /\ (fw.test = "add" /\ fw.a = MAX_VAL /\ fw.b = 1) =>
                 (fw.accepted <=> (fw.res = to_felt(MIN_VAL) /\ fw.overflow = 1))

C10_Witness ==
    /\ fw.test = "add" /\ fw.a = MAX_VAL /\ fw.b = 1
    /\ fw.res = to_felt(MIN_VAL) /\ fw.overflow = 1
    /\ fw.accepted

(***************************************************************************)
(* The unsigned fixed-width model (test_uint32.py).  The template is        *)
(* parametric in BIT_LENGTH; the model instantiates it at a width whose     *)
(* words TLC can enumerate.                                                 *)
(***************************************************************************)
UINT_BIT_LENGTH == 4
UINT_WORD_SIZE == 2 ^ UINT_BIT_LENGTH
UINT_SHIFT == 2 ^ UINT_BIT_LENGTH
UINT_MIN_VAL == 0
UINT_MAX_VAL == UINT_SHIFT - 1

\* arbitrary_num_generator of the unsigned tests
uint_arbitrary_num == UINT_MIN_VAL .. UINT_MAX_VAL

\* what the function under test may hand back for an unsigned word
UintReturnedWords == {to_felt(x) : x \in (UINT_MIN_VAL - Slack) .. (UINT_MAX_VAL + Slack)}

\* the unsigned assert_felt_eq_num compares without reducing modulo the prime
uint_assert_felt_eq_num(a, b) ==
    /\ (0 <= a) /\ (a < DEFAULT_PRIME)
    /\ a = b

\* the unsigned eq_with_overflow (% and // are floor division, as \div is)
uint_eq_with_overflow(expected_num, res, overflow) ==
    /\ res = (expected_num % UINT_SHIFT)
    /\ overflow = expected_num \div UINT_SHIFT

\* unsigned test__add: success_function(a_in, b_in, res, carry)
uint_add_success_function(a_in, b_in, res, carry) ==
    uint_eq_with_overflow(a_in + b_in, res, carry)

\* unsigned test__sub with the borrow passed on without its sign flipped
uint_sub_success_function_Unnegated(a_in, b_in, res, borrow) ==
    uint_eq_with_overflow(a_in - b_in, res, borrow)

\* unsigned test__sub: success_function(a_in, b_in, res, borrow)
uint_sub_success_function(a_in, b_in, res, borrow) ==
    uint_eq_with_overflow(a_in - b_in, res, -borrow)

\* unsigned test__mul: success_function(a_in, b_in, res, overflow)
uint_mul_success_function(a_in, b_in, res, overflow) ==
    uint_eq_with_overflow(a_in * b_in, res, overflow)

\* an unsigned test case before its judgement
UintPending(a, b, res, overflow) == Judgement("uint_pending", a, b, res, overflow, FALSE)

InitUint ==
    /\ run_tests = TRUE
    /\ LastTest = "None"
    /\ results_accumulator = NoneAcc
    /\ last = NoCall("init")
    /\ \E a \in uint_arbitrary_num, b \in uint_arbitrary_num :
         \E res \in UintReturnedWords, overflow \in UintReturnedWords :
           fw = UintPending(a, b, res, overflow)

uint_test__add ==
    /\ fw.test = "uint_pending"
    /\ fw' = Judgement("uint_add", fw.a, fw.b, fw.res, fw.overflow,
                       uint_add_success_function(fw.a, fw.b, fw.res, fw.overflow))
    /\ UNCHANGED <<run_tests, LastTest, results_accumulator, last>>

uint_test__sub ==
    /\ fw.test = "uint_pending"
    /\ fw' = Judgement("uint_sub", fw.a, fw.b, fw.res, fw.overflow,
                       uint_sub_success_function(fw.a, fw.b, fw.res, fw.overflow))
    /\ UNCHANGED <<run_tests, LastTest, results_accumulator, last>>

uint_test__mul ==
    /\ fw.test = "uint_pending"
    /\ fw' = Judgement("uint_mul", fw.a, fw.b, fw.res, fw.overflow,
                       uint_mul_success_function(fw.a, fw.b, fw.res, fw.overflow))
    /\ UNCHANGED <<run_tests, LastTest, results_accumulator, last>>

NextUintArith == uint_test__add \/ uint_test__sub \/ uint_test__mul

SpecUintArith == InitUint /\ [][NextUintArith]_vars

\* C11: unsigned add accepts exactly (sum mod WORD_SIZE, carry) with carry the
\* quotient, sub exactly (difference mod WORD_SIZE, borrow) with borrow 1 when
\* a < b and 0 otherwise, and mul exactly the pair (low word, high word) of
\* the product
C11_UnsignedArithmetic ==
    /\ fw.test = "uint_add" =>
          LET v == fw.a + fw.b IN
          fw.accepted <=>
              IF v < UINT_WORD_SIZE
              THEN fw.res = v /\ fw.overflow = 0
              ELSE fw.res = v - UINT_WORD_SIZE /\ fw.overflow = 1
    /\ fw.test = "uint_sub" =>
          fw.accepted <=>
              IF fw.a < fw.b
              THEN fw.res = fw.a - fw.b + UINT_WORD_SIZE /\ fw.overflow = 1
              ELSE fw.res = fw.a - fw.b /\ fw.overflow = 0
    /\ fw.test = "uint_mul" =>
          fw.accepted <=>
              /\ 0 <= fw.res /\ fw.res < UINT_WORD_SIZE
              /\ 0 <= fw.overflow /\ fw.overflow < UINT_WORD_SIZE
              /\ fw.res + fw.overflow * UINT_WORD_SIZE = fw.a * fw.b

C11_Witness ==
    /\ fw.test = "uint_sub" /\ fw.a = 0 /\ fw.b = 1
    /\ fw.res = UINT_MAX_VAL /\ fw.overflow = 1 /\ fw.accepted

(***************************************************************************)
(* Signed mul (test_int6.py)                                               *)
(***************************************************************************)
\* RC_BOUND is 2^128 against a prime of 252 bits: about half the bits
RC_BOUND == 2 ^ (FELT_BITS \div 2 + 1)

\* felt_to_num: a felt at or above RC_BOUND stands for a negative integer
felt_to_num(a) == IF a >= RC_BOUND THEN a - DEFAULT_PRIME ELSE a

\* test__mul with the limbs allowed to reach SHIFT itself
mul_success_function_Inclusive(a_in, b_in, res, overflow) ==
    /\ (-SHIFT <= felt_to_num(overflow)) /\ (felt_to_num(overflow) <= SHIFT)
    /\ (-SHIFT <= felt_to_num(res)) /\ (felt_to_num(res) <= SHIFT)
    /\ mod_default_prime(res + overflow * (2 * SHIFT) - a_in * b_in) = 0

\* test__mul: success_function(a_in, b_in, res, overflow)
mul_success_function(a_in, b_in, res, overflow) ==
    /\ (-SHIFT <= felt_to_num(overflow)) /\ (felt_to_num(overflow) < SHIFT)
    /\ (-SHIFT <= felt_to_num(res)) /\ (felt_to_num(res) < SHIFT)
    /\ mod_default_prime(res + overflow * (2 * SHIFT) - a_in * b_in) = 0

\* the returned pair is drawn with both limbs anywhere in the word
InitMul ==
    /\ run_tests = TRUE
    /\ LastTest = "None"
    /\ results_accumulator = NoneAcc
    /\ last = NoCall("init")
    /\ \E a \in arbitrary_num, b \in arbitrary_num :
         \E res \in ReturnedFlags \cup {to_felt(MIN_VAL), to_felt(MAX_VAL)},
            overflow \in ReturnedWords :
           fw = Pending(a, b, res, overflow)

test__mul ==
    /\ fw.test = "pending"
    /\ fw' = Judgement("mul", fw.a, fw.b, fw.res, fw.overflow,
                       mul_success_function(fw.a, fw.b, fw.res, fw.overflow))
    /\ UNCHANGED <<run_tests, LastTest, results_accumulator, last>>

NextMul == test__mul

SpecMul == InitMul /\ [][NextMul]_vars

\* a felt read as a signed integer: the upper half of the field is negative
SignedOf(e) == IF 2 * e > DEFAULT_PRIME THEN e - DEFAULT_PRIME ELSE e

\* the pairs of returned words that test__mul accepts for (a, b)
MulAccepted(a, b) ==
    {p \in ReturnedWords \X ReturnedWords : mul_success_function(a, b, p[1], p[2])}

\* the pairs of returned words that are the two signed limbs of a * b
MulClaimed(a, b) ==
    {p \in ReturnedWords \X ReturnedWords :
        /\ -SHIFT <= SignedOf(p[1]) /\ SignedOf(p[1]) < SHIFT
        /\ -SHIFT <= SignedOf(p[2]) /\ SignedOf(p[2]) < SHIFT
        /\ SignedOf(p[1]) + SignedOf(p[2]) * WORD_SIZE = a * b}

\* C12: signed mul accepts a pair iff both limbs, read as signed integers,
\* lie in [-SHIFT, SHIFT) and result + overflow * WORD_SIZE is a * b; for
\* every a, b in [MIN, MAX] exactly one pair of words is accepted.  (The
\* count depends on a and b only and is taken once per pair of arguments.)
C12_SignedMulLimbs ==
    fw.test = "mul" =>
        LET r == SignedOf(fw.res)
            o == SignedOf(fw.overflow)
        IN /\ fw.accepted <=>
                 /\ -SHIFT <= r /\ r < SHIFT
                 /\ -SHIFT <= o /\ o < SHIFT
                 /\ r + o * WORD_SIZE = fw.a * fw.b
           /\ (fw.res = 0 /\ fw.overflow = 0) =>
                 LET accepted == MulAccepted(fw.a, fw.b)
                 IN accepted = MulClaimed(fw.a, fw.b) /\ Cardinality(accepted) = 1

C12_Witness ==
    /\ fw.test = "mul" /\ fw.a = MIN_VAL /\ fw.b = MIN_VAL
    /\ fw.res = 0 /\ fw.overflow = SHIFT \div 2 /\ fw.accepted

(***************************************************************************)
(* div_rem, signed (test_int6.py) and unsigned (test_uint32.py)            *)
(***************************************************************************)
\* test__div_rem judging the general case by Python's own divmod
div_rem_success_function_Floor(a_in, b_in, quotient, remainder) ==
    LET quotient_as_int == felt_to_num(quotient)
        remainder_as_int == felt_to_num(remainder)
    IN IF (b_in = 0) \/ (a_in = 0)
       THEN (quotient_as_int = 0) /\ (remainder_as_int = 0)
       ELSE IF (b_in = -1) /\ (a_in # MIN_VAL)
       THEN (quotient_as_int = -a_in) /\ (remainder_as_int = 0)
       ELSE IF (b_in = -1) /\ (a_in = MIN_VAL)
       THEN (quotient_as_int = a_in) /\ (remainder_as_int = 0)
       ELSE LET sign_of_b_in == IF 0 <= b_in THEN 1 ELSE -1
            IN /\ 0 <= sign_of_b_in * remainder_as_int
               /\ sign_of_b_in * remainder_as_int < sign_of_b_in * b_in
               /\ a_in = b_in * quotient_as_int + remainder_as_int

\* test__div_rem without the branch for the dividend MIN_VAL
div_rem_success_function_NoFixpoint(a_in, b_in, quotient, remainder) ==
    LET quotient_as_int == felt_to_num(quotient)
        remainder_as_int == felt_to_num(remainder)
    IN IF (b_in = 0) \/ (a_in = 0)
       THEN (quotient_as_int = 0) /\ (remainder_as_int = 0)
       ELSE IF b_in = -1
       THEN (quotient_as_int = -a_in) /\ (remainder_as_int = 0)
       ELSE LET sign_of_a_in == IF 0 <= a_in THEN 1 ELSE -1
                sign_of_b_in == IF 0 <= b_in THEN 1 ELSE -1
            IN /\ 0 <= sign_of_a_in * remainder_as_int
               /\ sign_of_a_in * remainder_as_int < sign_of_b_in * b_in
               /\ a_in = b_in * quotient_as_int + remainder_as_int

\* test__div_rem judging the general case by the remainder alone
div_rem_success_function_NoEquation(a_in, b_in, quotient, remainder) ==
    LET quotient_as_int == felt_to_num(quotient)
        remainder_as_int == felt_to_num(remainder)
    IN IF (b_in = 0) \/ (a_in = 0)
       THEN (quotient_as_int = 0) /\ (remainder_as_int = 0)
       ELSE IF (b_in = -1) /\ (a_in # MIN_VAL)
       THEN (quotient_as_int = -a_in) /\ (remainder_as_int = 0)
       ELSE IF (b_in = -1) /\ (a_in = MIN_VAL)
       THEN (quotient_as_int = a_in) /\ (remainder_as_int = 0)
       ELSE LET sign_of_a_in == IF 0 <= a_in THEN 1 ELSE -1
                sign_of_b_in == IF 0 <= b_in THEN 1 ELSE -1
            IN /\ 0 <= sign_of_a_in * remainder_as_int
               /\ sign_of_a_in * remainder_as_int < sign_of_b_in * b_in

\* test__div_rem: success_function(a_in, b_in, quotient, remainder)
div_rem_success_function(a_in, b_in, quotient, remainder) ==
    LET quotient_as_int == felt_to_num(quotient)
        remainder_as_int == felt_to_num(remainder)
    IN IF (b_in = 0) \/ (a_in = 0)
       THEN (quotient_as_int = 0) /\ (remainder_as_int = 0)
       ELSE IF (b_in = -1) /\ (a_in # MIN_VAL)
       THEN (quotient_as_int = -a_in) /\ (remainder_as_int = 0)
       ELSE IF (b_in = -1) /\ (a_in = MIN_VAL)
       THEN (quotient_as_int = a_in) /\ (remainder_as_int = 0)
       ELSE LET sign_of_a_in == IF 0 <= a_in THEN 1 ELSE -1
                sign_of_b_in == IF 0 <= b_in THEN 1 ELSE -1
            IN /\ 0 <= sign_of_a_in * remainder_as_int
               /\ sign_of_a_in * remainder_as_int < sign_of_b_in * b_in
               /\ a_in = b_in * quotient_as_int + remainder_as_int

\* unsigned test__div_rem: success_function(a_in, b_in, res_quotient, res_remainder)
\* (divmod on non-negative operands: floor quotient and remainder)
uint_div_rem_success_function(a_in, b_in, res_quotient, res_remainder) ==
    IF b_in = 0
    THEN res_quotient = 0 /\ res_remainder = 0
    ELSE /\ res_quotient = a_in \div b_in
         /\ res_remainder = a_in % b_in

\* fw.res holds the quotient and fw.overflow the remainder
test__div_rem ==
    /\ fw.test = "pending"
    /\ fw' = Judgement("div_rem", fw.a, fw.b, fw.res, fw.overflow,
                       div_rem_success_function(fw.a, fw.b, fw.res, fw.overflow))
    /\ UNCHANGED <<run_tests, LastTest, results_accumulator, last>>

uint_test__div_rem ==
    /\ fw.test = "uint_pending"
    /\ fw' = Judgement("uint_div_rem", fw.a, fw.b, fw.res, fw.overflow,
                       uint_div_rem_success_function(fw.a, fw.b, fw.res, fw.overflow))
    /\ UNCHANGED <<run_tests, LastTest, results_accumulator, last>>

InitDivRem == InitAddSub \/ InitUint

NextDivRem == test__div_rem \/ uint_test__div_rem

SpecDivRem == InitDivRem /\ [][NextDivRem]_vars

Abs(x) == IF x < 0 THEN -x ELSE x

\* the quotient of a by b truncated toward zero (b # 0)
TruncatedQuotient(a, b) ==
    IF (a >= 0) = (b > 0) THEN Abs(a) \div Abs(b) ELSE -(Abs(a) \div Abs(b))

\* the pairs of returned words that test__div_rem accepts for (a, b)
DivRemAccepted(a, b) ==
    {p \in ReturnedWords \X ReturnedWords : div_rem_success_function(a, b, p[1], p[2])}

\* C13: outside the corner cases signed div_rem accepts exactly one pair: the
\* (q, r) with a = b*q + r, |r| < |b| and r zero or of the sign of a, which is
\* the quotient truncated toward zero; 7 and 2 with either sign give (3, 1),
\* (-3, 1), (-3, -1) and (3, -1).  (The set of accepted pairs depends on a
\* and b only and is taken once per pair of arguments.)
C13_SignedDivRemGeneral ==
    (fw.test = "div_rem" /\ fw.a # 0 /\ fw.b \notin {0, -1}) =>
        LET q == SignedOf(fw.res)
            r == SignedOf(fw.overflow)
            tq == TruncatedQuotient(fw.a, fw.b)
        IN /\ fw.accepted <=>
                 /\ fw.a = fw.b * q + r
                 /\ Abs(r) < Abs(fw.b)
                 /\ r = 0 \/ ((r > 0) <=> (fw.a > 0))
           /\ fw.accepted <=> (q = tq /\ r = fw.a - fw.b * tq)
           /\ (fw.res = 0 /\ fw.overflow = 0) =>
                 DivRemAccepted(fw.a, fw.b)
                     = {<<to_felt(tq), to_felt(fw.a - fw.b * tq)>>}
           /\ (fw.a = 7 /\ fw.b = 2) => (fw.accepted <=> (q = 3 /\ r = 1))
           /\ (fw.a = 7 /\ fw.b = -2) => (fw.accepted <=> (q = -3 /\ r = 1))
           /\ (fw.a = -7 /\ fw.b = 2) => (fw.accepted <=> (q = -3 /\ r = -1))
           /\ (fw.a = -7 /\ fw.b = -2) => (fw.accepted <=> (q = 3 /\ r = -1))

C13_Witness ==
    /\ fw.test = "div_rem" /\ fw.a = -7 /\ fw.b = 2
    /\ fw.res = to_felt(-3) /\ fw.overflow = to_felt(-1) /\ fw.accepted

\* C14: signed div_rem expects (0, 0) when the divisor or the dividend is 0,
\* (-dividend, 0) for the divisor -1 and a dividend other than MIN, (MIN, 0)
\* for the divisor -1 and the dividend MIN; unsigned div_rem expects (0, 0)
\* for a zero divisor and floor quotient and remainder otherwise, hence
\* (0, 0) for a zero dividend
C14_DivRemCorners ==
    /\ fw.test = "div_rem" =>
          LET q == SignedOf(fw.res)
              r == SignedOf(fw.overflow)
          IN /\ (fw.b = 0 \/ fw.a = 0) => (fw.accepted <=> (q = 0 /\ r = 0))
             /\ (fw.b = -1 /\ fw.a # MIN_VAL) => (fw.accepted <=> (q = -fw.a /\ r = 0))
             /\ (fw.b = -1 /\ fw.a = MIN_VAL) => (fw.accepted <=> (q = MIN_VAL /\ r = 0))
    /\ fw.test = "uint_div_rem" =>
          /\ fw.b = 0 => (fw.accepted <=> (fw.res = 0 /\ fw.overflow = 0))
          /\ fw.b # 0 =>
                (fw.accepted <=>
                    /\ 0 <= fw.overflow /\ fw.overflow < fw.b
                    /\ fw.res * fw.b + fw.overflow = fw.a)
          /\ fw.a = 0 => (fw.accepted <=> (fw.res = 0 /\ fw.overflow = 0))

C14_Witness ==
    /\ fw.test = "div_rem" /\ fw.a = MIN_VAL /\ fw.b = -1
    /\ fw.res = to_felt(MIN_VAL) /\ fw.overflow = 0 /\ fw.accepted

(***************************************************************************)
(* cond_neg, signed (test_int6.py) and unsigned (test_uint32.py)           *)
(***************************************************************************)
\* a judgement that also tells which exception the success function raised
\* and how the call of smart_test.run that closes the test ended
Verdict(test, a, b, res, raised, outcome) ==
    [test |-> test, a |-> a, b |-> b, res |-> res, overflow |-> 0,
     accepted |-> (raised = "None"), raised |-> raised, outcome |-> outcome]

\* the outcome of a block of asserts
Asserting(holds) == IF holds THEN "None" ELSE "AssertionError"

\* the second arguments handed to cond_neg: the booleans and their neighbours
CondNegFlags == (0 - Slack) .. (1 + Slack)

\* test__cond_neg: success_function(a_in, b_in, res)
cond_neg_success_function(a_in, b_in, res) ==
    IF (b_in = 1) /\ (a_in # MIN_VAL)
    THEN Asserting(assert_felt_eq_num(res, -a_in))
    ELSE IF (b_in = 1) /\ (a_in = MIN_VAL)
    THEN Asserting(assert_felt_eq_num(res, a_in))
    ELSE IF b_in = 0
    THEN Asserting(assert_felt_eq_num(res, a_in))
    ELSE "ValueError"

\* unsigned test__cond_neg: success_function(a_in, b_in, res)
uint_cond_neg_success_function(a_in, b_in, res) ==
    IF b_in = 1
    THEN Asserting(res = (-a_in) % UINT_SHIFT)
    ELSE IF b_in = 0
    THEN Asserting(uint_assert_felt_eq_num(res, a_in))
    ELSE "ValueError"

\* CairoTest.run after an invocation that returned `results`, for a success
\* function that ended with `raised` ("None" if it returned)
CairoTest_run_after_success(raised, argument_values, results, acc) ==
    IF raised = "None"
    THEN RunResult("returned", NoExc,
                   append_if_accumulating(acc, <<TAG_SUCC_EXPECTED, argument_values, results>>),
                   TAG_SUCC_EXPECTED, TRUE, FALSE)
    ELSE \* the `raise` sits inside `if results_accumulator != None:`
         IF acc.none = FALSE
         THEN RunResult("raised", Exc(raised, "success_function", "None"),
                        ListAcc(Append(acc.list, <<TAG_SUCC_UNEXPECTED, argument_values, results>>)),
                        TAG_SUCC_UNEXPECTED, TRUE, FALSE)
         ELSE RunResult("returned", NoExc, acc, TAG_SUCC_UNEXPECTED, TRUE, FALSE)

COND_NEG == "cond_neg"
UINT_COND_NEG == "uint_cond_neg"

\* the smart test of the test files accumulates nothing unless the user sets
\* results_accumulator to []
InitCondNeg ==
    /\ run_tests = TRUE
    /\ LastTest = "None"
    /\ results_accumulator \in {NoneAcc, ListAcc(<<>>)}
    /\ last = NoCall("init")
    /\ \/ \E a \in arbitrary_num, b \in CondNegFlags, res \in ReturnedWords :
            fw = Pending(a, b, res, 0)
       \/ \E a \in uint_arbitrary_num, b \in CondNegFlags, res \in UintReturnedWords :
            fw = UintPending(a, b, res, 0)

\* test__cond_neg on these_arguments = [a, b] when the function returns res:
\* smart_test.run(ThisTest, these_arguments)
test__cond_neg ==
    /\ fw.test = "pending"
    /\ run_tests
    /\ LET raised == cond_neg_success_function(fw.a, fw.b, fw.res)
           r == CairoTest_run_after_success(raised, <<fw.a, fw.b>>, <<fw.res>>,
                                            results_accumulator)
       IN /\ fw' = Verdict(COND_NEG, fw.a, fw.b, fw.res, raised, r.outcome)
          /\ results_accumulator' = r.acc
          /\ LastTest' = IF r.outcome = "returned" THEN COND_NEG ELSE LastTest
    /\ UNCHANGED <<run_tests, last>>

uint_test__cond_neg ==
    /\ fw.test = "uint_pending"
    /\ run_tests
    /\ LET raised == uint_cond_neg_success_function(fw.a, fw.b, fw.res)
           r == CairoTest_run_after_success(raised, <<fw.a, fw.b>>, <<fw.res>>,
                                            results_accumulator)
       IN /\ fw' = Verdict(UINT_COND_NEG, fw.a, fw.b, fw.res, raised, r.outcome)
          /\ results_accumulator' = r.acc
          /\ LastTest' = IF r.outcome = "returned" THEN UINT_COND_NEG ELSE LastTest
    /\ UNCHANGED <<run_tests, last>>

NextCondNeg == test__cond_neg \/ uint_test__cond_neg

SpecCondNeg == InitCondNeg /\ [][NextCondNeg]_vars

\* what the success functions of cond_neg expect: with b = 1 the value -a
\* (MIN for the signed a = MIN, -a mod 2^W unsigned), with b = 0 the value a,
\* and a ValueError for every other b whatever a and the returned value are
CondNegPredicates ==
    /\ fw.test = COND_NEG =>
          /\ (fw.b = 1 /\ fw.a # MIN_VAL) => (fw.accepted <=> SignedOf(fw.res) = -fw.a)
          /\ (fw.b = 1 /\ fw.a = MIN_VAL) => (fw.accepted <=> SignedOf(fw.res) = MIN_VAL)
          /\ fw.b = 0 => (fw.accepted <=> SignedOf(fw.res) = fw.a)
          /\ fw.b \in {0, 1} => fw.raised \in {"None", "AssertionError"}
          /\ fw.b \notin {0, 1} => fw.raised = "ValueError"
    /\ fw.test = UINT_COND_NEG =>
          /\ fw.b = 1 =>
                (fw.accepted <=>
                    /\ 0 <= fw.res /\ fw.res < UINT_WORD_SIZE
                    /\ (fw.res + fw.a) % UINT_WORD_SIZE = 0)
          /\ fw.b = 0 => (fw.accepted <=> fw.res = fw.a)
          /\ fw.b \in {0, 1} => fw.raised \in {"None", "AssertionError"}
          /\ fw.b \notin {0, 1} => fw.raised = "ValueError"

\* C15: cond_neg expects -a for b = 1 (MIN at the signed fixpoint, -a mod 2^W
\* unsigned) and a for b = 0; for every other b the success function raises
\* ValueError, so that a run of the test in which cond_neg returned on such b
\* is rejected: the test ends with the exception, it does not pass
C15_CondNeg ==
    /\ CondNegPredicates
    /\ (fw.test \in {COND_NEG, UINT_COND_NEG} /\ fw.b \notin {0, 1}) =>
          fw.outcome = "raised"

(***************************************************************************)
(* Signed shifts (test_int6.py)                                            *)
(***************************************************************************)
ALL_ONES == WORD_SIZE - 1

\* the shift amounts handed to shl and shr
ShiftAmounts == 0 .. (BIT_LENGTH + Slack)

\* test__shl saturating from BIT_LENGTH on
shl_success_function_LateSaturation(a_in, b_in, res) ==
    /\ b_in >= 0
    /\ IF b_in >= BIT_LENGTH
       THEN assert_felt_eq_num(res, 0)
       ELSE LET unsigned_result == (a_in * 2 ^ b_in) % (ALL_ONES + 1)
            IN IF unsigned_result > MAX_VAL
               THEN assert_felt_eq_num(res, unsigned_result - WORD_SIZE)
               ELSE assert_felt_eq_num(res, unsigned_result)

\* test__shl: success_function(a_in, b_in, res); for a mask of ones
\* `x & ALL_ONES` is x modulo ALL_ONES + 1, also for negative x
shl_success_function(a_in, b_in, res) ==
    /\ b_in >= 0
    /\ IF b_in >= BIT_LENGTH - 1
       THEN assert_felt_eq_num(res, 0)
       ELSE LET unsigned_result == (a_in * 2 ^ b_in) % (ALL_ONES + 1)
            IN IF unsigned_result > MAX_VAL
               THEN assert_felt_eq_num(res, unsigned_result - WORD_SIZE)
               ELSE assert_felt_eq_num(res, unsigned_result)

\* test__shr: success_function(a_in, b_in, res); `a >> b` is the floor of
\* a / 2^b
shr_success_function(a_in, b_in, res) ==
    /\ b_in >= 0
    /\ IF (b_in >= BIT_LENGTH - 1) /\ (a_in >= 0)
       THEN assert_felt_eq_num(res, 0)
       ELSE IF (b_in >= BIT_LENGTH - 1) /\ (a_in < 0)
       THEN assert_felt_eq_num(res, -1)
       ELSE assert_felt_eq_num(res, a_in \div (2 ^ b_in))

InitShift ==
    /\ run_tests = TRUE
    /\ LastTest = "None"
    /\ results_accumulator = NoneAcc
    /\ last = NoCall("init")
    /\ \E a \in arbitrary_num, b \in ShiftAmounts, res \in ReturnedWords :
         fw = Pending(a, b, res, 0)

test__shl ==
    /\ fw.test = "pending"
    /\ fw' = Judgement("shl", fw.a, fw.b, fw.res, 0,
                       shl_success_function(fw.a, fw.b, fw.res))
    /\ UNCHANGED <<run_tests, LastTest, results_accumulator, last>>

test__shr ==
    /\ fw.test = "pending"
    /\ fw' = Judgement("shr", fw.a, fw.b, fw.res, 0,
                       shr_success_function(fw.a, fw.b, fw.res))
    /\ UNCHANGED <<run_tests, LastTest, results_accumulator, last>>

NextShift == test__shl \/ test__shr

SpecShift == InitShift /\ [][NextShift]_vars

\* C16: for b >= 0, shl expects 0 from b = W-1 on and below that the signed
\* W-bit value congruent to a * 2^b; shr expects 0 or -1 (by the sign of a)
\* from b = W-1 on and floor(a / 2^b) below, and the saturated values are
\* that floor too
C16_SignedShifts ==
    LET r == SignedOf(fw.res) IN
    /\ fw.test = "shl" =>
          /\ fw.b >= BIT_LENGTH - 1 => (fw.accepted <=> r = 0)
          /\ fw.b < BIT_LENGTH - 1 =>
                (fw.accepted <=>
                    /\ MIN_VAL <= r /\ r <= MAX_VAL
                    /\ (r - fw.a * 2 ^ fw.b) % WORD_SIZE = 0)
    /\ fw.test = "shr" =>
          /\ (fw.b >= BIT_LENGTH - 1 /\ fw.a >= 0) => (fw.accepted <=> r = 0)
          /\ (fw.b >= BIT_LENGTH - 1 /\ fw.a < 0) => (fw.accepted <=> r = -1)
          /\ fw.accepted <=> (r * 2 ^ fw.b <= fw.a /\ fw.a < (r + 1) * 2 ^ fw.b)

C16_Witness ==
    /\ fw.test = "shr" /\ fw.a = MIN_VAL /\ fw.b = BIT_LENGTH
    /\ fw.res = to_felt(-1) /\ fw.accepted

(***************************************************************************)
(* felt_heuristic (cairo_smart_test_framework.py)                          *)
(***************************************************************************)
\* Python values: an int, a list or a tuple of values, or anything else
IntVal(n) == [kind |-> "int", v |-> n, items |-> <<>>]
SeqVal(kind, items) == [kind |-> kind, v |-> 0, items |-> items]
StrVal == [kind |-> "str", v |-> 0, items |-> <<>>]

\* felt_heuristic on an int, with the threshold one above DEFAULT_PRIME // 2
felt_heuristic_int_Strict(x) ==
    IF x > DEFAULT_PRIME \div 2 THEN x - DEFAULT_PRIME ELSE x

\* felt_heuristic, the branch isinstance(x, int)
felt_heuristic_int(x) ==
    IF x >= DEFAULT_PRIME \div 2 THEN x - DEFAULT_PRIME ELSE x

RECURSIVE felt_heuristic(_)
felt_heuristic(x) ==
    IF x.kind = "int"
    THEN IntVal(felt_heuristic_int(x.v))
    ELSE IF (x.kind = "list") \/ (x.kind = "tuple")
    THEN SeqVal("list", [i \in 1 .. Len(x.items) |-> felt_heuristic(x.items[i])])
    ELSE x

\* the longest list handed to felt_heuristic
MaxItems == 2

\* felts around the threshold and at the ends of the field
ThresholdFelts ==
    {0, DEFAULT_PRIME \div 2 - 1, DEFAULT_PRIME \div 2, DEFAULT_PRIME \div 2 + 1,
     DEFAULT_PRIME - 1}

\* what a list may hold: felts, a string, a nested tuple of results
ItemValues ==
    {IntVal(e) : e \in ThresholdFelts}
        \cup {StrVal, SeqVal("tuple", <<IntVal(DEFAULT_PRIME - 1), StrVal>>)}

HeuristicInputs ==
    {IntVal(e) : e \in 0 .. (DEFAULT_PRIME - 1)}
        \cup {StrVal}
        \cup {SeqVal(k, items) : k \in {"list", "tuple"},
                                 items \in UNION {[1 .. n -> ItemValues] : n \in 0 .. MaxItems}}

HeuristicCase(test, x, result) == [test |-> test, x |-> x, result |-> result]

InitHeuristic ==
    /\ run_tests = TRUE
    /\ LastTest = "None"
    /\ results_accumulator = NoneAcc
    /\ last = NoCall("init")
    /\ \E x \in HeuristicInputs : fw = HeuristicCase("heuristic_pending", x, x)

Call_felt_heuristic ==
    /\ fw.test = "heuristic_pending"
    /\ fw' = HeuristicCase("felt_heuristic", fw.x, felt_heuristic(fw.x))
    /\ UNCHANGED <<run_tests, LastTest, results_accumulator, last>>

NextHeuristic == Call_felt_heuristic

SpecHeuristic == InitHeuristic /\ [][NextHeuristic]_vars

\* the item-wise reading of a result: a list of the same length whose int
\* items are mapped by `image` and whose other scalar items are kept
ElementWise(x, result, image(_)) ==
    /\ result.kind = "list"
    /\ Len(result.items) = Len(x.items)
    /\ \A i \in 1 .. Len(x.items) :
          /\ x.items[i].kind = "int" => result.items[i] = IntVal(image(x.items[i].v))
          /\ x.items[i].kind = "str" => result.items[i] = x.items[i]
          /\ x.items[i].kind = "tuple" =>
                /\ result.items[i].kind = "list"
                /\ Len(result.items[i].items) = Len(x.items[i].items)
                /\ \A j \in 1 .. Len(x.items[i].items) :
                      x.items[i].items[j].kind = "int" =>
                         result.items[i].items[j] = IntVal(image(x.items[i].items[j].v))

\* the negative representative from prime/2 on (prime is odd: 2e >= prime)
FromHalfPrime(e) == IF 2 * e >= DEFAULT_PRIME THEN e - DEFAULT_PRIME ELSE e

\* the negative representative from (prime - 1)/2 on
FromFloorHalfPrime(e) == IF 2 * e >= DEFAULT_PRIME - 1 THEN e - DEFAULT_PRIME ELSE e

\* C17 as stated: a felt e is mapped to e - prime exactly when e >= prime/2
\* and to e otherwise, element-wise on lists and tuples
C17_HeuristicFromHalfPrime ==
    fw.test = "felt_heuristic" =>
        /\ fw.x.kind = "int" => fw.result = IntVal(FromHalfPrime(fw.x.v))
        /\ fw.x.kind \in {"list", "tuple"} => ElementWise(fw.x, fw.result, FromHalfPrime)

\* C17 amended: a felt e is mapped to e - prime exactly when
\* e >= (prime - 1)/2, the floor of prime/2, and to e otherwise; lists and
\* tuples are mapped element-wise to a list
C17_HeuristicFromFloorHalfPrime ==
    fw.test = "felt_heuristic" =>
        /\ fw.x.kind = "int" => fw.result = IntVal(FromFloorHalfPrime(fw.x.v))
        /\ fw.x.kind \in {"list", "tuple"} => ElementWise(fw.x, fw.result, FromFloorHalfPrime)

C17_Witness ==
    /\ fw.test = "felt_heuristic"
    /\ fw.x = SeqVal("tuple", <<IntVal(DEFAULT_PRIME \div 2), IntVal(DEFAULT_PRIME \div 2 - 1)>>)
    /\ fw.result = SeqVal("list", <<IntVal(0 - (DEFAULT_PRIME + 1) \div 2),
                                    IntVal(DEFAULT_PRIME \div 2 - 1)>>)

(***************************************************************************)
(* Unbounded integers (test_biguint.py, test_bigint.py).  The conversions  *)
(* int_to_num and num_to_int live in biguint_tools and are taken from      *)
(* their description: base-SHIFT digits, least significant first, no       *)
(* most-significant zero digit, closed by the end-of-number marker.        *)
(***************************************************************************)
BIG_BIT_LENGTH == 4
BIG_SHIFT == 2 ^ BIG_BIT_LENGTH
EON == -1

\* the integers the round trips are run on: -MaxInt .. MaxInt
MaxInt == 300
\* the longest digit sequence of a generated num
MaxDigits == 2

add_eon(l) == Append(l, EON)
strip_eon(a) == SubSeq(a, 1, Len(a) - 1)

RECURSIVE digits_of(_)
digits_of(n) ==
    IF n = 0 THEN <<>> ELSE <<n % BIG_SHIFT>> \o digits_of(n \div BIG_SHIFT)

\* a conversion that gives zero the digit 0
int_to_num_ZeroDigit(n) == IF n = 0 THEN add_eon(<<0>>) ELSE add_eon(digits_of(n))

int_to_num(n) == add_eon(digits_of(n))

RECURSIVE value_of(_)
value_of(l) ==
    IF Len(l) = 0 THEN 0 ELSE Head(l) + BIG_SHIFT * value_of(Tail(l))

num_to_int(a) == value_of(strip_eon(a))

\* the Cairo struct wrappers
BigUint(a) == [ptr |-> a]
BigInt(a_sign, a_abs) == [sign |-> a_sign, ptr |-> a_abs]

num_to_biguint(a) == BigUint(a)
biguint_to_num(a) == a.ptr
int_to_biguint(n) == num_to_biguint(int_to_num(n))
biguint_to_int(a) == num_to_int(biguint_to_num(a))

\* a sign split that files zero under -1
int_to_signed_abs_ZeroNegative(a) == IF a > 0 THEN <<1, a>> ELSE <<-1, -a>>

int_to_signed_abs(a) == IF a >= 0 THEN <<1, a>> ELSE <<-1, -a>>

int_to_bigint(a) ==
    LET sa == int_to_signed_abs(a) IN BigInt(sa[1], int_to_num(sa[2]))

\* a conversion back that drops the sign
bigint_to_int_Unsigned(a) == num_to_int(a.ptr)

bigint_to_int(a) == a.sign * num_to_int(a.ptr)

\* arbitrary_uint_list filtered to the lists that do not end in 0
arbitrary_uint_list ==
    UNION {[1 .. n -> 0 .. (BIG_SHIFT - 1)] : n \in 0 .. MaxDigits}
big_arbitrary_num ==
    {add_eon(l) : l \in {m \in arbitrary_uint_list : Len(m) > 0 => m[Len(m)] # 0}}
arbitrary_biguint == {num_to_biguint(a) : a \in big_arbitrary_num}
arbitrary_sign == {b * 2 - 1 : b \in 0 .. 1}
arbitrary_bigint == {BigInt(sg, a) : sg \in arbitrary_sign, a \in big_arbitrary_num}
arbitrary_unbounded_unsigned_int == 0 .. MaxInt
arbitrary_unbounded_signed_int == (0 - MaxInt) .. MaxInt

BigCase(test, n, x, out_n, out_x) ==
    [test |-> test, n |-> n, x |-> x, out_n |-> out_n, out_x |-> out_x]

InitBig ==
    /\ run_tests = TRUE
    /\ LastTest = "None"
    /\ results_accumulator = NoneAcc
    /\ last = NoCall("init")
    /\ \/ \E n \in arbitrary_unbounded_signed_int :
            fw = BigCase("int_pending", n, BigUint(<<>>), 0, BigUint(<<>>))
       \/ \E x \in arbitrary_bigint :
            fw = BigCase("bigint_pending", 0, x, 0, x)
       \/ \E x \in arbitrary_biguint :
            fw = BigCase("biguint_pending", 0, x, 0, x)

\* assert bigint_to_int(int_to_bigint(n)) == n
test__bigint_rlr ==
    /\ fw.test = "int_pending"
    /\ fw' = BigCase("bigint_rlr", fw.n, int_to_bigint(fw.n),
                     bigint_to_int(int_to_bigint(fw.n)), fw.out_x)
    /\ UNCHANGED <<run_tests, LastTest, results_accumulator, last>>

\* assert biguint_to_int(int_to_biguint(n)) == n
test__utility_rlr ==
    /\ fw.test = "int_pending"
    /\ fw.n \in arbitrary_unbounded_unsigned_int
    /\ fw' = BigCase("utility_rlr", fw.n, int_to_biguint(fw.n),
                     biguint_to_int(int_to_biguint(fw.n)), fw.out_x)
    /\ UNCHANGED <<run_tests, LastTest, results_accumulator, last>>

\* assert int_to_bigint(bigint_to_int(a_bigint)) == a_bigint (or (1, zero))
test__bigint_lrl ==
    /\ fw.test = "bigint_pending"
    /\ fw' = BigCase("bigint_lrl", bigint_to_int(fw.x), fw.x, 0,
                     int_to_bigint(bigint_to_int(fw.x)))
    /\ UNCHANGED <<run_tests, LastTest, results_accumulator, last>>

\* assert int_to_biguint(biguint_to_int(a_biguint)) == a_biguint
test__utility_lrl ==
    /\ fw.test = "biguint_pending"
    /\ fw' = BigCase("utility_lrl", biguint_to_int(fw.x), fw.x, 0,
                     int_to_biguint(biguint_to_int(fw.x)))
    /\ UNCHANGED <<run_tests, LastTest, results_accumulator, last>>

\* int_to_num(n), and int_to_num again on the integer it stands for
Call_int_to_num ==
    /\ fw.test = "int_pending"
    /\ fw.n \in arbitrary_unbounded_unsigned_int
    /\ fw' = BigCase("int_to_num", fw.n, BigUint(int_to_num(fw.n)),
                     num_to_int(int_to_num(fw.n)),
                     BigUint(int_to_num(num_to_int(int_to_num(fw.n)))))
    /\ UNCHANGED <<run_tests, LastTest, results_accumulator, last>>

NextBig ==
    \/ test__bigint_rlr
    \/ test__utility_rlr
    \/ test__bigint_lrl
    \/ test__utility_lrl
    \/ Call_int_to_num

SpecBig == InitBig /\ [][NextBig]_vars

\* C18: converting an integer to the unbounded representation and back gives
\* the integer: every n through bigint, every n >= 0 through biguint
C18_IntegerRoundTrip ==
    /\ fw.test = "bigint_rlr" => fw.out_n = fw.n
    /\ fw.test = "utility_rlr" => fw.out_n = fw.n

C18_Witness ==
    /\ fw.test = "bigint_rlr" /\ fw.n = 0 - (BIG_SHIFT + 1)
    /\ fw.x = BigInt(-1, <<1, 1, EON>>) /\ fw.out_n = fw.n

ZeroNum == add_eon(<<>>)

\* C19: converting a canonical representation to an integer and back gives
\* the representation, except that (-1, zero) comes back as (+1, zero)
C19_RepresentationRoundTrip ==
    /\ fw.test = "bigint_lrl" =>
          IF fw.x = BigInt(-1, ZeroNum)
          THEN fw.out_x = BigInt(1, ZeroNum)
          ELSE fw.out_x = fw.x
    /\ fw.test = "utility_lrl" => fw.out_x = fw.x

C19_Witness ==
    /\ fw.test = "bigint_lrl" /\ fw.x = BigInt(-1, ZeroNum)
    /\ fw.out_x = BigInt(1, ZeroNum)

\* C20: the digits of int_to_num(n) lie in 0 .. R-1, there are none for
\* n = 0, the most significant (last stored) digit is not 0 otherwise, and
\* int_to_num(num_to_int(int_to_num(n))) is the same digit sequence
C20_CanonicalForm ==
    fw.test = "int_to_num" =>
        LET digits == strip_eon(fw.x.ptr) IN
        /\ fw.x.ptr[Len(fw.x.ptr)] = EON
        /\ \A i \in 1 .. Len(digits) : 0 <= digits[i] /\ digits[i] <= BIG_SHIFT - 1
        /\ fw.n = 0 <=> Len(digits) = 0
        /\ Len(digits) > 0 => digits[Len(digits)] # 0
        /\ fw.out_x = fw.x

C20_Witness ==
    /\ fw.test = "int_to_num" /\ fw.n = BIG_SHIFT
    /\ fw.x = BigUint(<<0, 1, EON>>) /\ fw.out_x = fw.x

(***************************************************************************)
(* Unbounded div (test_biguint.py, test_bigint.py).  better_divmod lives   *)
(* in biguint_tools; test__better_divmod states what it has to satisfy.    *)
(***************************************************************************)
\* the largest magnitude of an operand or of a returned value of div
DivMax == 7

\* the integers div is run on, and the representations handed over
DivInts == (0 - DivMax) .. DivMax
DivBigUints == {int_to_biguint(n) : n \in 0 .. DivMax}
DivBigInts == {BigInt(sg, int_to_num(n)) : sg \in arbitrary_sign, n \in 0 .. DivMax}

Sign(x) == IF x < 0 THEN -1 ELSE IF x > 0 THEN 1 ELSE 0

\* long division of the magnitudes, the quotient signed by the operands and
\* the remainder taking what is left: the remainder has the dividend's sign
better_divmod(a, b) ==
    IF b = 0
    THEN <<0, 0>>
    ELSE LET quotient == Sign(a) * Sign(b) * (Abs(a) \div Abs(b))
         IN <<quotient, a - quotient * b>>

\* biguint test__div with `and` for `or` in the zero case: divmod(a, 0)
\* raises ZeroDivisionError
biguint_div_success_function_ZeroDivision(a_in, b_in, quotient_out, remainder_out) ==
    LET a == biguint_to_int(a_in)
        b == biguint_to_int(b_in)
        quotient == biguint_to_int(quotient_out)
        remainder == biguint_to_int(remainder_out)
    IN IF (a = 0) /\ (b = 0)
       THEN <<quotient, remainder>> = <<0, 0>>
       ELSE IF b = 0
       THEN FALSE
       ELSE <<quotient, remainder>> = <<a \div b, a % b>>

\* biguint test__div: success_function(a_in, b_in, quotient_out, remainder_out);
\* divmod of non-negative integers is the floor quotient and the remainder
biguint_div_success_function(a_in, b_in, quotient_out, remainder_out) ==
    LET a == biguint_to_int(a_in)
        b == biguint_to_int(b_in)
        quotient == biguint_to_int(quotient_out)
        remainder == biguint_to_int(remainder_out)
    IN IF (a = 0) \/ (b = 0)
       THEN <<quotient, remainder>> = <<0, 0>>
       ELSE <<quotient, remainder>> = <<a \div b, a % b>>

\* bigint test__div: success_function(a, b, res, remainder)
bigint_div_success_function(a, b, res, remainder) ==
    better_divmod(bigint_to_int(a), bigint_to_int(b))
        = <<bigint_to_int(res), bigint_to_int(remainder)>>

\* test__better_divmod: the assertions on (quotient, remainder)
better_divmod_assertions(a, b, quotient, remainder) ==
    IF b = 0
    THEN (quotient = 0) /\ (remainder = 0)
    ELSE /\ a = quotient * b + remainder
         /\ (a >= 0) \/ (remainder <= 0)

InitBigDiv ==
    /\ run_tests = TRUE
    /\ LastTest = "None"
    /\ results_accumulator = NoneAcc
    /\ last = NoCall("init")
    /\ \/ \E a \in DivBigUints, b \in DivBigUints, q \in DivBigUints, r \in DivBigUints :
            fw = Judgement("biguint_div_pending", a, b, q, r, FALSE)
       \/ \E a \in DivBigInts, b \in DivBigInts, q \in DivBigInts, r \in DivBigInts :
            fw = Judgement("bigint_div_pending", a, b, q, r, FALSE)
       \/ \E a \in DivInts, b \in DivInts :
            fw = Judgement("int_pair_pending", a, b, 0, 0, FALSE)

biguint_test__div ==
    /\ fw.test = "biguint_div_pending"
    /\ fw' = Judgement("biguint_div", fw.a, fw.b, fw.res, fw.overflow,
                       biguint_div_success_function(fw.a, fw.b, fw.res, fw.overflow))
    /\ UNCHANGED <<run_tests, LastTest, results_accumulator, last>>

bigint_test__div ==
    /\ fw.test = "bigint_div_pending"
    /\ fw' = Judgement("bigint_div", fw.a, fw.b, fw.res, fw.overflow,
                       bigint_div_success_function(fw.a, fw.b, fw.res, fw.overflow))
    /\ UNCHANGED <<run_tests, LastTest, results_accumulator, last>>

test__better_divmod ==
    /\ fw.test = "int_pair_pending"
    /\ LET qr == better_divmod(fw.a, fw.b)
       IN fw' = Judgement("better_divmod", fw.a, fw.b, qr[1], qr[2],
                          better_divmod_assertions(fw.a, fw.b, qr[1], qr[2]))
    /\ UNCHANGED <<run_tests, LastTest, results_accumulator, last>>

NextBigDiv == biguint_test__div \/ bigint_test__div \/ test__better_divmod

SpecBigDiv == InitBigDiv /\ [][NextBigDiv]_vars

\* the integers a judged div case is about
DivCase ==
    IF fw.test = "biguint_div"
    THEN [a |-> biguint_to_int(fw.a), b |-> biguint_to_int(fw.b),
          q |-> biguint_to_int(fw.res), r |-> biguint_to_int(fw.overflow)]
    ELSE [a |-> bigint_to_int(fw.a), b |-> bigint_to_int(fw.b),
          q |-> bigint_to_int(fw.res), r |-> bigint_to_int(fw.overflow)]

\* the repository's own test of better_divmod passes on every pair
BetterDivmodPassesItsTest == fw.test = "better_divmod" => fw.accepted

\* C21 as stated: for magnitudes and signed values alike, (0, 0) is expected
\* when a or b is zero, and otherwise the pair with a = b*q + r and
\* 0 <= r < |b|
C21_DivEuclidean ==
    fw.test \in {"biguint_div", "bigint_div"} =>
        LET c == DivCase IN
        IF (c.a = 0) \/ (c.b = 0)
        THEN fw.accepted <=> (c.q = 0 /\ c.r = 0)
        ELSE fw.accepted <=>
                (c.a = c.b * c.q + c.r /\ 0 <= c.r /\ c.r < Abs(c.b))

\* C21 amended: (0, 0) is expected when a or b is zero; otherwise the pair
\* with a = b*q + r and |r| < |b| where r is zero or has the sign of a (so
\* 0 <= r < b for magnitudes, and r <= 0 for a negative signed dividend)
C21_DivRemainderFollowsDividend ==
    fw.test \in {"biguint_div", "bigint_div"} =>
        LET c == DivCase IN
        IF (c.a = 0) \/ (c.b = 0)
        THEN fw.accepted <=> (c.q = 0 /\ c.r = 0)
        ELSE fw.accepted <=>
                /\ c.a = c.b * c.q + c.r
                /\ Abs(c.r) < Abs(c.b)
                /\ (c.r = 0) \/ (Sign(c.r) = Sign(c.a))

C21_Witness ==
    /\ fw.test = "bigint_div" /\ fw.accepted
    /\ fw.a = BigInt(-1, <<7, EON>>) /\ fw.b = BigInt(1, <<2, EON>>)
    /\ fw.res = BigInt(-1, <<3, EON>>) /\ fw.overflow = BigInt(-1, <<1, EON>>)

(***************************************************************************)
(* Magnitude subtraction (test_biguint.py).  num_sub lives in              *)
(* biguint_tools: schoolbook subtraction with borrow of the smaller from   *)
(* the larger magnitude, with the sign telling which was larger.           *)
(***************************************************************************)
RECURSIVE sub_digits(_, _, _)
sub_digits(x, y, borrow) ==
    IF Len(x) = 0
    THEN <<>>
    ELSE LET y_digit == IF Len(y) = 0 THEN 0 ELSE Head(y)
             y_rest == IF Len(y) = 0 THEN <<>> ELSE Tail(y)
             d == Head(x) - y_digit - borrow
         IN IF d < 0
            THEN <<d + BIG_SHIFT>> \o sub_digits(Tail(x), y_rest, 1)
            ELSE <<d>> \o sub_digits(Tail(x), y_rest, 0)

RECURSIVE strip_zeros(_)
strip_zeros(l) ==
    IF Len(l) = 0 THEN l
    ELSE IF l[Len(l)] = 0 THEN strip_zeros(SubSeq(l, 1, Len(l) - 1))
    ELSE l

num_sub(a, b) ==
    LET x == strip_eon(a)
        y == strip_eon(b)
    IN IF value_of(x) >= value_of(y)
       THEN <<1, add_eon(strip_zeros(sub_digits(x, y, 0)))>>
       ELSE <<-1, add_eon(strip_zeros(sub_digits(y, x, 0)))>>

\* test__utility_sub with a strict comparison
utility_sub_assertions_Strict(a_int, b_int, sign, res_int) ==
    IF a_int > b_int
    THEN <<sign, res_int>> = <<1, a_int - b_int>>
    ELSE <<sign, res_int>> = <<-1, b_int - a_int>>

\* test__utility_sub: the assertions on (sign, res_int)
utility_sub_assertions(a_int, b_int, sign, res_int) ==
    IF a_int >= b_int
    THEN <<sign, res_int>> = <<1, a_int - b_int>>
    ELSE <<sign, res_int>> = <<-1, b_int - a_int>>

\* biguint test__sub: success_function(a, b, res, sign)
biguint_sub_success_function(a, b, res, sign) ==
    IF sign = 1
    THEN biguint_to_int(res) + biguint_to_int(b) = biguint_to_int(a)
    ELSE IF sign = (-1) % DEFAULT_PRIME
    THEN biguint_to_int(res) + biguint_to_int(a) = biguint_to_int(b)
    ELSE FALSE

\* the digits of the magnitudes sub is run on: those that borrow and carry
SubDigits == {0, 1, BIG_SHIFT - 1}
SubNums ==
    {a \in big_arbitrary_num : \A i \in 1 .. (Len(a) - 1) : a[i] \in SubDigits}
SubBigUints == {num_to_biguint(a) : a \in SubNums}
\* the sign felts a run of sub may return
SubSigns == {to_felt(x) : x \in (-Slack) .. Slack}

SubCase(test, a, b, sign, res, accepted) ==
    [test |-> test, a |-> a, b |-> b, sign |-> sign, res |-> res,
     accepted |-> accepted]

InitBigSub ==
    /\ run_tests = TRUE
    /\ LastTest = "None"
    /\ results_accumulator = NoneAcc
    /\ last = NoCall("init")
    /\ \/ \E a \in SubBigUints, b \in SubBigUints :
            fw = SubCase("biguint_pair_pending", a, b, 0, a, FALSE)
       \/ \E a \in SubBigUints, b \in SubBigUints, res \in SubBigUints, sign \in SubSigns :
            fw = SubCase("biguint_sub_pending", a, b, sign, res, FALSE)

test__utility_sub ==
    /\ fw.test = "biguint_pair_pending"
    /\ LET a_num == biguint_to_num(fw.a)
           b_num == biguint_to_num(fw.b)
           sr == num_sub(a_num, b_num)
       IN fw' = SubCase("utility_sub", fw.a, fw.b, sr[1], num_to_biguint(sr[2]),
                        utility_sub_assertions(num_to_int(a_num), num_to_int(b_num),
                                               sr[1], num_to_int(sr[2])))
    /\ UNCHANGED <<run_tests, LastTest, results_accumulator, last>>

biguint_test__sub ==
    /\ fw.test = "biguint_sub_pending"
    /\ fw' = SubCase("biguint_sub", fw.a, fw.b, fw.sign, fw.res,
                     biguint_sub_success_function(fw.a, fw.b, fw.res, fw.sign))
    /\ UNCHANGED <<run_tests, LastTest, results_accumulator, last>>

NextBigSub == test__utility_sub \/ biguint_test__sub

SpecBigSub == InitBigSub /\ [][NextBigSub]_vars

\* C22: num_sub on canonical magnitudes gives (+1, a - b) whenever a >= b
\* (the zero magnitude when a = b) and (-1, b - a) whenever a < b, with a
\* magnitude of digits in 0 .. R-1, never a negative one; test__utility_sub
\* passes on it
C22_NumSubSignMagnitude ==
    fw.test = "utility_sub" =>
        LET a == biguint_to_int(fw.a)
            b == biguint_to_int(fw.b)
            digits == strip_eon(fw.res.ptr)
        IN /\ a >= b => (fw.sign = 1 /\ biguint_to_int(fw.res) = a - b)
           /\ a = b => fw.res = BigUint(ZeroNum)
           /\ a < b => (fw.sign = -1 /\ biguint_to_int(fw.res) = b - a)
           /\ \A i \in 1 .. Len(digits) : 0 <= digits[i] /\ digits[i] < BIG_SHIFT
           /\ biguint_to_int(fw.res) >= 0
           /\ fw.accepted

C22_Witness ==
    /\ fw.test = "utility_sub"
    /\ fw.a = BigUint(<<1, EON>>) /\ fw.b = BigUint(<<0, 1, EON>>)
    /\ fw.sign = -1 /\ fw.res = BigUint(<<BIG_SHIFT - 1, EON>>)

\* what test__sub accepts from the function under test: the magnitude of
\* the difference with a sign that fits (either sign when a = b)
SubPredicateAccepts ==
    fw.test = "biguint_sub" =>
        LET a == biguint_to_int(fw.a)
            b == biguint_to_int(fw.b)
            r == biguint_to_int(fw.res)
        IN fw.accepted <=>
              \/ fw.sign = 1 /\ a >= b /\ r = a - b
              \/ fw.sign = to_felt(-1) /\ a <= b /\ r = b - a

(***************************************************************************)
(* BigInt comparison (test_bigint.py)                                      *)
(***************************************************************************)
\* is_eq comparing the representations instead of the integers
bigint_is_eq_success_function_ByRepresentation(a, b, res) ==
    \/ (a = b) /\ (res = 1)
    \/ (a # b) /\ (res = 0)

\* test__is_eq: success_function(a, b, res)
bigint_is_eq_success_function(a, b, res) ==
    LET a_int == bigint_to_int(a)
        b_int == bigint_to_int(b)
    IN \/ (a_int = b_int) /\ (res = 1)
       \/ (a_int # b_int) /\ (res = 0)

\* test__compare: success_function(a_in, b_in, res)
bigint_compare_success_function(a_in, b_in, res) ==
    IF bigint_to_int(a_in) < bigint_to_int(b_in)
    THEN res = (-1) % DEFAULT_PRIME
    ELSE IF bigint_to_int(a_in) = bigint_to_int(b_in)
    THEN res = 0
    ELSE IF bigint_to_int(a_in) > bigint_to_int(b_in)
    THEN res = 1
    ELSE TRUE

\* test__is_lt: success_function(a_in, b_in, res)
bigint_is_lt_success_function(a_in, b_in, res) ==
    \/ (bigint_to_int(a_in) < bigint_to_int(b_in)) /\ (res = 1)
    \/ (bigint_to_int(a_in) >= bigint_to_int(b_in)) /\ (res = 0)

\* test__is_le: success_function(a_in, b_in, res)
bigint_is_le_success_function(a_in, b_in, res) ==
    \/ (bigint_to_int(a_in) <= bigint_to_int(b_in)) /\ (res = 1)
    \/ (bigint_to_int(a_in) > bigint_to_int(b_in)) /\ (res = 0)

\* the canonical BigInts the comparisons are run on, both zeros among them
CmpBigInts == {BigInt(sg, a) : sg \in arbitrary_sign, a \in SubNums}

InitBigCmp ==
    /\ run_tests = TRUE
    /\ LastTest = "None"
    /\ results_accumulator = NoneAcc
    /\ last = NoCall("init")
    /\ \E a \in CmpBigInts, b \in CmpBigInts, res \in ReturnedFlags :
         fw = Judgement("bigint_cmp_pending", a, b, res, 0, FALSE)

bigint_test__is_eq ==
    /\ fw.test = "bigint_cmp_pending"
    /\ fw' = Judgement("is_eq", fw.a, fw.b, fw.res, 0,
                       bigint_is_eq_success_function(fw.a, fw.b, fw.res))
    /\ UNCHANGED <<run_tests, LastTest, results_accumulator, last>>

bigint_test__compare ==
    /\ fw.test = "bigint_cmp_pending"
    /\ fw' = Judgement("compare", fw.a, fw.b, fw.res, 0,
                       bigint_compare_success_function(fw.a, fw.b, fw.res))
    /\ UNCHANGED <<run_tests, LastTest, results_accumulator, last>>

bigint_test__is_lt ==
    /\ fw.test = "bigint_cmp_pending"
    /\ fw' = Judgement("is_lt", fw.a, fw.b, fw.res, 0,
                       bigint_is_lt_success_function(fw.a, fw.b, fw.res))
    /\ UNCHANGED <<run_tests, LastTest, results_accumulator, last>>

bigint_test__is_le ==
    /\ fw.test = "bigint_cmp_pending"
    /\ fw' = Judgement("is_le", fw.a, fw.b, fw.res, 0,
                       bigint_is_le_success_function(fw.a, fw.b, fw.res))
    /\ UNCHANGED <<run_tests, LastTest, results_accumulator, last>>

NextBigCmp ==
    \/ bigint_test__is_eq
    \/ bigint_test__compare
    \/ bigint_test__is_lt
    \/ bigint_test__is_le

SpecBigCmp == InitBigCmp /\ [][NextBigCmp]_vars

\* the numeric value of a BigInt, its digits weighted by powers of the radix
ValueOfBigInt(x) ==
    LET digits == strip_eon(x.ptr)
        Weighted[i \in 0 .. Len(digits)] ==
            IF i = 0 THEN 0 ELSE Weighted[i - 1] + digits[i] * BIG_SHIFT ^ (i - 1)
    IN x.sign * Weighted[Len(digits)]

\* -1, 0 or 1 as the value of x is below, equal to or above the value of y
CompareValues(x, y) ==
    IF ValueOfBigInt(x) < ValueOfBigInt(y) THEN -1
    ELSE IF ValueOfBigInt(x) = ValueOfBigInt(y) THEN 0
    ELSE 1

\* C23: compare expects -1 (as prime - 1), 0 or 1 by the numeric values;
\* is_eq expects 1 iff compare is 0, so both zeros are equal; is_lt expects
\* 1 iff compare is -1; is_le expects 1 iff compare is not 1
C23_CompareByValue ==
    LET cmp == CompareValues(fw.a, fw.b) IN
    /\ fw.test = "compare" => (fw.accepted <=> fw.res = to_felt(cmp))
    /\ fw.test = "is_eq" => (fw.accepted <=> fw.res = (IF cmp = 0 THEN 1 ELSE 0))
    /\ fw.test = "is_lt" => (fw.accepted <=> fw.res = (IF cmp = -1 THEN 1 ELSE 0))
    /\ fw.test = "is_le" => (fw.accepted <=> fw.res = (IF cmp # 1 THEN 1 ELSE 0))

C23_Witness ==
    /\ fw.test = "is_eq" /\ fw.accepted /\ fw.res = 1
    /\ fw.a = BigInt(1, ZeroNum) /\ fw.b = BigInt(-1, ZeroNum)

(***************************************************************************)
(* num_check, signed (test_int6.py) and unsigned (test_uint32.py)          *)
(***************************************************************************)
\* CairoTest.run after an invocation that raised `inv_exc`, for a failure
\* function that ended with `raised` ("None" if it returned)
CairoTest_run_after_failure(raised, argument_values, inv_exc, acc) ==
    IF raised = "None"
    THEN RunResult("returned", NoExc,
                   append_if_accumulating(acc, <<TAG_FAIL_EXPECTED, argument_values>>),
                   TAG_FAIL_EXPECTED, FALSE, TRUE)
    ELSE \* the bare `raise` re-raises the exception being handled
         RunResult("raised", Exc(raised, "failure_function", inv_exc),
                   append_if_accumulating(acc, <<TAG_FAIL_UNEXPECTED, argument_values>>),
                   TAG_FAIL_UNEXPECTED, FALSE, TRUE)

\* test__num_check: success_function(a_in)
num_check_success_function(a_in) == (MIN_VAL <= a_in) /\ (a_in <= MAX_VAL)

\* test__num_check with a failure function that also takes MIN_VAL
num_check_failure_function_Inclusive(a_in) == (a_in <= MIN_VAL) \/ (MAX_VAL < a_in)

\* test__num_check: failure_function(a_in)
num_check_failure_function(a_in) == (a_in < MIN_VAL) \/ (MAX_VAL < a_in)

\* unsigned test__num_check: success_function(a_in), failure_function(a_in)
uint_num_check_success_function(a_in) == (UINT_MIN_VAL <= a_in) /\ (a_in <= UINT_MAX_VAL)
uint_num_check_failure_function(a_in) == (a_in < UINT_MIN_VAL) \/ (UINT_MAX_VAL < a_in)

\* arbitrary_num_possibly_out_of_bounds
arbitrary_num_possibly_out_of_bounds == ((0 - RC_BOUND) + 1) .. (RC_BOUND - 1)
uint_arbitrary_num_possibly_out_of_bounds == (0 - UINT_WORD_SIZE) .. (2 * UINT_WORD_SIZE)

NumCheckCase(test, a, failed, success_accepts, failure_accepts, cell, outcome) ==
    [test |-> test, a |-> a, failed |-> failed, success_accepts |-> success_accepts,
     failure_accepts |-> failure_accepts, cell |-> cell, outcome |-> outcome]

InitNumCheck ==
    /\ run_tests = TRUE
    /\ LastTest = "None"
    /\ results_accumulator \in {NoneAcc, ListAcc(<<>>)}
    /\ last = NoCall("init")
    /\ \/ \E a \in arbitrary_num_possibly_out_of_bounds, failed \in BOOLEAN :
            fw = NumCheckCase("num_check_pending", a, failed, FALSE, FALSE, "None", "None")
       \/ \E a \in uint_arbitrary_num_possibly_out_of_bounds, failed \in BOOLEAN :
            fw = NumCheckCase("uint_num_check_pending", a, failed, FALSE, FALSE, "None", "None")

NUM_CHECK == "num_check"
UINT_NUM_CHECK == "uint_num_check"

\* what smart_test.run(ThisTest, these_arguments) does for a function under
\* test that failed or returned (num_check returns no values)
NumCheckRun(test, a, failed, success_accepts, failure_accepts) ==
    LET r == IF failed
             THEN CairoTest_run_after_failure(Asserting(failure_accepts), <<a>>,
                                              "VmException", results_accumulator)
             ELSE CairoTest_run_after_success(Asserting(success_accepts), <<a>>, <<>>,
                                              results_accumulator)
    IN /\ fw' = NumCheckCase(test, a, failed, success_accepts, failure_accepts,
                             r.cell, r.outcome)
       /\ results_accumulator' = r.acc
       /\ LastTest' = IF r.outcome = "returned" THEN test ELSE LastTest
       /\ UNCHANGED <<run_tests, last>>

test__num_check ==
    /\ fw.test = "num_check_pending"
    /\ run_tests
    /\ NumCheckRun(NUM_CHECK, fw.a, fw.failed, num_check_success_function(fw.a),
                   num_check_failure_function(fw.a))

uint_test__num_check ==
    /\ fw.test = "uint_num_check_pending"
    /\ run_tests
    /\ NumCheckRun(UINT_NUM_CHECK, fw.a, fw.failed, uint_num_check_success_function(fw.a),
                   uint_num_check_failure_function(fw.a))

NextNumCheck == test__num_check \/ uint_test__num_check

SpecNumCheck == InitNumCheck /\ [][NextNumCheck]_vars

GoodCells == {TAG_SUCC_EXPECTED, TAG_FAIL_EXPECTED}

\* the words of width 6 (signed) and of the unsigned width
SignedWords == (0 - 2 ^ (BIT_LENGTH - 1)) .. (2 ^ (BIT_LENGTH - 1) - 1)
UnsignedWords == 0 .. (2 ^ UINT_BIT_LENGTH - 1)

\* C24: the success predicate of num_check accepts exactly the a in
\* MIN .. MAX and the failure predicate exactly the a outside, so exactly one
\* of them accepts, and the run is classified as good for exactly one
\* behaviour of the function: succeeding inside the range, failing outside
C24_NumCheckComplementary ==
    LET words == IF fw.test = NUM_CHECK THEN SignedWords ELSE UnsignedWords IN
    fw.test \in {NUM_CHECK, UINT_NUM_CHECK} =>
        /\ fw.success_accepts <=> fw.a \in words
        /\ fw.failure_accepts <=> fw.a \notin words
        /\ fw.success_accepts # fw.failure_accepts
        /\ fw.cell \in GoodCells <=> (fw.failed <=> fw.a \notin words)

C24_Witness ==
    /\ fw.test = NUM_CHECK /\ fw.a = MAX_VAL + 1 /\ fw.failed
    /\ fw.failure_accepts /\ ~fw.success_accepts /\ fw.cell = TAG_FAIL_EXPECTED

(***************************************************************************)
(* CairoTest.run_tests_with                                                *)
(***************************************************************************)
\* the longest list of test classes handed to run_tests_with
MaxClasses == 2

\* lists of test classes that take argument values of the same types
ListsOfTestClasses ==
    {[i \in 1 .. n |-> c] : n \in 0 .. MaxClasses, c \in TestClasses}

\* the argument values a list of test classes is run on
ArgumentsOfList(l) ==
    IF Len(l) = 0 THEN UNION {ArgumentValues(c) : c \in TestClasses}
    ELSE ArgumentValues(l[1])

\* how the function under test would behave at each place of the list
InvocationsOfList(l) ==
    IF Len(l) = 0 THEN {<<>>} ELSE [1 .. Len(l) -> Invocations(l[1])]

RunTestsWithCase(test, l, argument_values, invs, note_ok, ran, outcome, exc) ==
    [test |-> test, list_of_test_classes |-> l, argument_values |-> argument_values,
     invs |-> invs, note_ok |-> note_ok, ran |-> ran, outcome |-> outcome, exc |-> exc]

InitRunTestsWith ==
    /\ run_tests = TRUE
    /\ LastTest = "None"
    /\ results_accumulator = NoneAcc
    /\ last = NoCall("init")
    /\ \E l \in ListsOfTestClasses, note_ok \in BOOLEAN :
         \E argument_values \in ArgumentsOfList(l), invs \in InvocationsOfList(l) :
            fw = RunTestsWithCase("run_tests_with_pending", l, argument_values, invs,
                                  note_ok, <<>>, "None", "None")

\* run_tests_with: in the first round of the loop hypothesis' note() raises
\* outside a hypothesis test, and otherwise the lookup of self.run_test
\* does: CairoTest has no attribute run_test.  `ran` lists the test classes
\* that CairoTest.run was called on.
CairoTest_run_tests_with ==
    /\ fw.test = "run_tests_with_pending"
    /\ fw' = IF Len(fw.list_of_test_classes) = 0
             THEN RunTestsWithCase("run_tests_with", fw.list_of_test_classes,
                                   fw.argument_values, fw.invs, fw.note_ok,
                                   <<>>, "returned", "None")
             ELSE RunTestsWithCase("run_tests_with", fw.list_of_test_classes,
                                   fw.argument_values, fw.invs, fw.note_ok,
                                   <<>>, "raised",
                                   IF fw.note_ok THEN "AttributeError" ELSE "InvalidArgument")
    /\ UNCHANGED <<run_tests, LastTest, results_accumulator, last>>

NextRunTestsWith == CairoTest_run_tests_with

SpecRunTestsWith == InitRunTestsWith /\ [][NextRunTestsWith]_vars

\* every test of the list would be classified as good by CairoTest.run
EveryTestGood ==
    \A i \in 1 .. Len(fw.list_of_test_classes) :
        CairoTest_run(fw.list_of_test_classes[i], fw.argument_values, fw.invs[i],
                      NoneAcc).cell \in GoodCells

\* C25: run_tests_with runs every test class of the list, in list order, on
\* the argument values, and returns normally when every one of them has a
\* good outcome
C25_RunsEveryTestOfTheList ==
    fw.test = "run_tests_with" =>
        /\ fw.outcome = "returned" => fw.ran = fw.list_of_test_classes
        /\ EveryTestGood =>
              (fw.outcome = "returned" /\ fw.ran = fw.list_of_test_classes)

(***************************************************************************)
(* The accumulator over sequences of harness calls                         *)
(***************************************************************************)
HarnessCalls ==
    {"run", "run_LastTest", "invoke_LastTest_on", "pretty_print_accumulated_results"}

IsPrefix(s, t) == Len(s) <= Len(t) /\ SubSeq(t, 1, Len(s)) = s

\* C26: with an accumulator attached, a call of run, run_LastTest,
\* invoke_LastTest_on or pretty_print_accumulated_results keeps the list and
\* every entry in it in place; an executed run (run_tests True) adds exactly
\* one entry at the end and every other call adds none
C26_AccumulatorAppendOnly ==
    [][(last'.op \in HarnessCalls /\ ~results_accumulator.none) =>
          /\ ~results_accumulator'.none
          /\ IsPrefix(results_accumulator.list, results_accumulator'.list)
          /\ Len(results_accumulator'.list) =
                Len(results_accumulator.list)
                    + (IF last'.op \in {"run", "run_LastTest"} /\ run_tests THEN 1 ELSE 0)
      ]_vars

C26_Witness ==
    /\ ~results_accumulator.none
    /\ Len(results_accumulator.list) = 2
    /\ results_accumulator.list[1][1] # results_accumulator.list[2][1]
    /\ last.op = "run_LastTest" /\ last.ran /\ last.outcome = "raised"

(***************************************************************************)
(* Two SmartTest instances, each with its own accumulator, whose run calls *)
(* interleave step by step: invoke, classify, append, store LastTest.      *)
(* Here run_tests, LastTest and results_accumulator hold one value per     *)
(* instance, and fw holds where each instance is in its call.              *)
(***************************************************************************)
Instances == {1, 2}

\* the number of run calls of an instance
MaxRuns == 2

\* the calls an instance makes: test class, argument values and what the
\* function under test does; between them they reach all four cells
InstanceCalls ==
    {[test_class |-> IS_DOUBLE, argument_values |-> args, inv |-> inv] :
        args \in {<<2, 1>>, <<32, 1>>}, inv \in {Returned(<<1>>), Raised("VmException")}}
      \cup {[test_class |-> ID, argument_values |-> <<1>>, inv |-> Returned(<<1>>)]}

\* every instance appending to the accumulator of the first
SharedAccumulator(i) == 1

\* self.results_accumulator: the accumulator that instance i appends to
OwnAccumulator(i) == i

Idle(calls, classes) ==
    [pc |-> "idle", call |-> [test_class |-> "None", argument_values |-> <<>>,
                              inv |-> NotInvoked],
     results |-> NotInvoked, cell |-> "None", calls |-> calls, classes |-> classes]

InitTwo ==
    /\ run_tests = [i \in Instances |-> TRUE]
    /\ LastTest = [i \in Instances |-> "None"]
    /\ results_accumulator = [i \in Instances |-> ListAcc(<<>>)]
    /\ last = NoCall("init")
    /\ fw = [i \in Instances |-> Idle(<<>>, <<>>)]

\* instance i enters SmartTest.run(SomeCairoTestClass, some_arguments);
\* `calls` notes what a run of its own leaves in an accumulator, in call order
Two_run(i) ==
    /\ fw[i].pc = "idle"
    /\ Len(fw[i].calls) < MaxRuns
    /\ run_tests[i]
    /\ \E c \in InstanceCalls :
         fw' = [fw EXCEPT ![i] =
                  [@ EXCEPT !.pc = "invoke", !.call = c,
                            !.calls = Append(@, CairoTest_run(c.test_class, c.argument_values,
                                                              c.inv, ListAcc(<<>>)).acc.list[1]),
                            !.classes = Append(@, c.test_class)]]
    /\ UNCHANGED <<run_tests, LastTest, results_accumulator, last>>

\* results = self.invoke_function(test_class, argument_values)
Two_invoke(i) ==
    /\ fw[i].pc = "invoke"
    /\ fw' = [fw EXCEPT ![i] = [@ EXCEPT !.pc = "classify", !.results = fw[i].call.inv]]
    /\ UNCHANGED <<run_tests, LastTest, results_accumulator, last>>

\* the call of failure_function or success_function
Two_classify(i) ==
    /\ fw[i].pc = "classify"
    /\ LET c == fw[i].call
           cell == IF fw[i].results.failed
                   THEN IF failure_function(c.test_class, c.argument_values) = "ok"
                        THEN TAG_FAIL_EXPECTED ELSE TAG_FAIL_UNEXPECTED
                   ELSE IF success_function(c.test_class, c.argument_values,
                                            fw[i].results.results) = "ok"
                        THEN TAG_SUCC_EXPECTED ELSE TAG_SUCC_UNEXPECTED
       IN fw' = [fw EXCEPT ![i] = [@ EXCEPT !.pc = "append", !.cell = cell]]
    /\ UNCHANGED <<run_tests, LastTest, results_accumulator, last>>

\* results_accumulator.append(...), then return or raise
Two_append(i) ==
    /\ fw[i].pc = "append"
    /\ LET c == fw[i].call
           entry == IF fw[i].results.failed
                    THEN <<fw[i].cell, c.argument_values>>
                    ELSE <<fw[i].cell, c.argument_values, fw[i].results.results>>
           j == OwnAccumulator(i)
       IN results_accumulator' =
             [results_accumulator EXCEPT ![j] = append_if_accumulating(@, entry)]
    /\ fw' = [fw EXCEPT ![i] =
                IF fw[i].cell \in {TAG_FAIL_EXPECTED, TAG_SUCC_EXPECTED}
                THEN [@ EXCEPT !.pc = "store"]
                ELSE Idle(fw[i].calls, fw[i].classes)]
    /\ UNCHANGED <<run_tests, LastTest, last>>

\* self.LastTest = SomeCairoTestClass
Two_store(i) ==
    /\ fw[i].pc = "store"
    /\ LastTest' = [LastTest EXCEPT ![i] = fw[i].call.test_class]
    /\ fw' = [fw EXCEPT ![i] = Idle(fw[i].calls, fw[i].classes)]
    /\ UNCHANGED <<run_tests, results_accumulator, last>>

NextTwo ==
    \E i \in Instances :
        \/ Two_run(i)
        \/ Two_invoke(i)
        \/ Two_classify(i)
        \/ Two_append(i)
        \/ Two_store(i)

SpecTwo == InitTwo /\ [][NextTwo]_vars

\* the entries an instance's accumulator has to hold: those of its own
\* calls, the call in progress from its append on
OwnEntries(i) ==
    IF fw[i].pc \in {"invoke", "classify", "append"}
    THEN SubSeq(fw[i].calls, 1, Len(fw[i].calls) - 1)
    ELSE fw[i].calls

\* C27: under every interleaving of the steps of two instances, each
\* accumulator holds exactly the outcomes of its own instance's runs in call
\* order, and each LastTest is a test class of its own instance's calls
C27_InstancesDoNotInterfere ==
    \A i \in Instances :
        /\ results_accumulator[i] = ListAcc(OwnEntries(i))
        /\ \/ LastTest[i] = "None"
           \/ \E k \in 1 .. Len(fw[i].classes) : LastTest[i] = fw[i].classes[k]

C27_Witness ==
    /\ fw[1].pc = "append" /\ fw[2].pc = "idle"
    /\ Len(fw[1].calls) = 2 /\ Len(fw[2].calls) = 2
    /\ fw[1].calls # fw[2].calls
    /\ Len(results_accumulator[1].list) = 1 /\ Len(results_accumulator[2].list) = 2
    /\ LastTest[1] = ID /\ LastTest[2] = IS_DOUBLE

(***************************************************************************)
(* SmartTest.__init__(test_object=None, filename=None)                     *)
(***************************************************************************)
\* the number of precompiled test objects, and of file names, to choose from
MaxPrograms == 5

Absent == [none |-> TRUE, id |-> 0]
Given(n) == [none |-> FALSE, id |-> n]
TestObjects == {Absent} \cup {Given(n) : n \in 1 .. MaxPrograms}
Filenames == {Absent} \cup {Given(n) : n \in 1 .. MaxPrograms}

\* a field of the harness: before construction there is no harness to hold it
NoField == [exists |-> FALSE]
Field(v) == [exists |-> TRUE, value |-> v]

\* a constructor that takes the test object whenever one is given
init_branch_PrefersTestObject(test_object, filename) ==
    IF ~test_object.none THEN "test_object"
    ELSE IF (~filename.none) /\ test_object.none THEN "filename"
    ELSE "ValueError"

\* the branch that __init__ takes
init_branch(test_object, filename) ==
    IF filename.none /\ (~test_object.none) THEN "test_object"
    ELSE IF (~filename.none) /\ test_object.none THEN "filename"
    ELSE "ValueError"

Construction(test, test_object, filename, compiles, raised, harness_test_object) ==
    [test |-> test, test_object |-> test_object, filename |-> filename,
     compiles |-> compiles, raised |-> raised,
     harness_test_object |-> harness_test_object]

InitConstruct ==
    /\ run_tests = NoField
    /\ LastTest = NoField
    /\ results_accumulator = NoField
    /\ last = NoCall("init")
    /\ \E test_object \in TestObjects, filename \in Filenames, compiles \in BOOLEAN :
         fw = Construction("construction_pending", test_object, filename, compiles,
                           "None", NoField)

\* SmartTest(test_object, filename); compile_cairo_code_from_ either gives
\* a program or raises, and then construction ends there
SmartTest_init ==
    /\ fw.test = "construction_pending"
    /\ LET branch == init_branch(fw.test_object, fw.filename)
           raised == IF branch = "ValueError" THEN "ValueError"
                     ELSE IF (branch = "filename") /\ ~fw.compiles THEN "CompilationError"
                     ELSE "None"
           harness_test_object ==
               IF branch = "test_object"
               THEN Field([compiled_here |-> FALSE, id |-> fw.test_object.id])
               ELSE Field([compiled_here |-> TRUE, id |-> fw.filename.id])
       IN IF raised = "None"
          THEN /\ fw' = Construction("SmartTest", fw.test_object, fw.filename, fw.compiles,
                                     raised, harness_test_object)
               /\ run_tests' = Field(TRUE)
               /\ LastTest' = Field("None")
               /\ results_accumulator' = Field(NoneAcc)
          ELSE /\ fw' = Construction("SmartTest", fw.test_object, fw.filename, fw.compiles,
                                     raised, NoField)
               /\ UNCHANGED <<run_tests, LastTest, results_accumulator>>
    /\ UNCHANGED last

NextConstruct == SmartTest_init

SpecConstruct == InitConstruct /\ [][NextConstruct]_vars

HarnessExists ==
    \/ fw.harness_test_object.exists
    \/ run_tests.exists
    \/ LastTest.exists
    \/ results_accumulator.exists

\* C28: with both or neither of filename and test_object the construction
\* raises ValueError and there is no harness; with exactly one of them it
\* does not raise ValueError, and the harness it makes (whenever the file
\* compiles) starts with run_tests = True, LastTest = None and no accumulator
C28_ConstructionTakesExactlyOne ==
    fw.test = "SmartTest" =>
        LET number_given == Cardinality({k \in {"test_object", "filename"} : ~fw[k].none})
        IN /\ number_given # 1 => (fw.raised = "ValueError" /\ ~HarnessExists)
           /\ number_given = 1 =>
                /\ fw.raised # "ValueError"
                /\ ((~fw.test_object.none) \/ fw.compiles) => HarnessExists
                /\ HarnessExists =>
                      /\ fw.raised = "None"
                      /\ fw.harness_test_object.exists
                      /\ run_tests.exists /\ run_tests.value = TRUE
                      /\ LastTest.exists /\ LastTest.value = "None"
                      /\ results_accumulator.exists
                      /\ results_accumulator.value = NoneAcc

C28_Witness ==
    /\ fw.test = "SmartTest" /\ ~fw.test_object.none /\ ~fw.filename.none
    /\ fw.raised = "ValueError" /\ ~run_tests.exists

(***************************************************************************)
(* test__is_not_zero of the unbounded integers: what the two success       *)
(* predicates accept, for every generated input and every flag a run may   *)
(* return.                                                                 *)
(***************************************************************************)

biguint_is_not_zero_success_function(a_in, res) ==
    LET zero_value == num_to_biguint(<<EON>>)
    IN \/ (a_in = zero_value /\ res = 0)
       \/ (a_in # zero_value /\ res = 1)

\* `or` evaluates left to right; the last disjunct has no condition on a_in
bigint_is_not_zero_success_function(a_in, res) ==
    \/ (a_in = BigInt(1, <<EON>>) /\ res = 0)
    \/ (a_in = BigInt(-1, <<EON>>) /\ res = 0)
    \/ (res = 1)

IsNotZeroCase(test, a, res, accepted) ==
    [test |-> test, a |-> a, res |-> res, accepted |-> accepted]

InitIsNotZero ==
    /\ run_tests = TRUE
    /\ LastTest = "None"
    /\ results_accumulator = NoneAcc
    /\ last = NoCall("init")
    /\ \/ \E a \in arbitrary_bigint, res \in ReturnedFlags :
            fw = IsNotZeroCase("bigint_is_not_zero_pending", a, res, FALSE)
       \/ \E a \in big_arbitrary_num, res \in ReturnedFlags :
            fw = IsNotZeroCase("biguint_is_not_zero_pending", num_to_biguint(a), res, FALSE)

bigint_test__is_not_zero ==
    /\ fw.test = "bigint_is_not_zero_pending"
    /\ fw' = IsNotZeroCase("bigint_is_not_zero", fw.a, fw.res,
                           bigint_is_not_zero_success_function(fw.a, fw.res))
    /\ UNCHANGED <<run_tests, LastTest, results_accumulator, last>>

biguint_test__is_not_zero ==
    /\ fw.test = "biguint_is_not_zero_pending"
    /\ fw' = IsNotZeroCase("biguint_is_not_zero", fw.a, fw.res,
                           biguint_is_not_zero_success_function(fw.a, fw.res))
    /\ UNCHANGED <<run_tests, LastTest, results_accumulator, last>>

NextIsNotZero == bigint_test__is_not_zero \/ biguint_test__is_not_zero

SpecIsNotZero == InitIsNotZero /\ [][NextIsNotZero]_vars

\* the flag an exact oracle accepts: 0 for a zero representation, 1 otherwise
ExactIsNotZero(a, res) ==
    IF a.ptr = <<EON>> THEN res = 0 ELSE res = 1

\* C29: each is_not_zero success predicate accepts exactly res = 0 for a
\* zero representation and exactly res = 1 for a non-zero input; res = 1 is
\* not accepted for a zero input
C29_IsNotZeroExactOracle ==
    fw.test \in {"bigint_is_not_zero", "biguint_is_not_zero"} =>
        (fw.accepted <=> ExactIsNotZero(fw.a, fw.res))

\* the biguint predicate alone is such an oracle
BigUintIsNotZeroExact ==
    fw.test = "biguint_is_not_zero" => (fw.accepted <=> ExactIsNotZero(fw.a, fw.res))

\* the bigint predicate is exact on every input but a zero returned with 1
BigIntIsNotZeroExactButOne ==
    (fw.test = "bigint_is_not_zero" /\ ~(fw.a.ptr = <<EON>> /\ fw.res = 1)) =>
        (fw.accepted <=> ExactIsNotZero(fw.a, fw.res))

====
